---- MODULE Spec2Model ----
(***************************************************************************)
(* A model of shellbot2's conversation history and context compaction:     *)
(*   - src/src/shellbot2/context_compaction.py (compact_recent_interactions *)
(*     and its helpers), run as a loop over a heap of message dictionaries, *)
(*   - src/src/shellbot2/message_history.py (MessageHistory: the SQLite     *)
(*     message table, add_interaction, get_all_interactions,                *)
(*     get_recent_interactions).                                            *)
(*                                                                         *)
(* Texts are sequences of characters (integers).  Floating point values of *)
(* the compaction config (base_weight, weight_growth) are exact rationals  *)
(* held in hundredths; burden_threshold is an integer.  A burden ratio is  *)
(* a pair num/den of integers with den > 0.                                *)
(***************************************************************************)
EXTENDS Integers, Sequences, FiniteSets, TLC

VARIABLES
    \* ---- compact_recent_interactions -----------------------------------
    conf,          \* the mapping under 'context_compaction' of the agent's conf
    config,        \* the ContextCompactionConfig of the call
    heap,          \* address -> message dictionary (every dict alive)
    heap0,         \* the heap as it was when the call started
    interactions,  \* the argument: a list of interactions, each the list of
                   \* the addresses of its messages' payload dictionaries
    cpc,           \* position of the call: "start", "loop", "done"
    pass,          \* 1: the call on stored interactions, 2: the call on its own output
    reverse_idx,   \* loop index of `enumerate(reversed(interactions))`
    burden,        \* local `burden`, in hundredths
    total_length,  \* local `total_length`
    compacted_recent_to_oldest,  \* local list of lists of (addresses of) copies
    applied,       \* per iteration so far: the burden_ratio handed to
                   \* _compact_interaction_messages, as [num, den]
    result,        \* the returned list (addresses of the copies)
    result1,       \* the payloads returned by pass 1 (kept for pass 2)
    \* ---- MessageHistory -------------------------------------------------
    db,            \* the committed rows of table `messages`, in id order
    clock,         \* the value datetime.now() returns
    next_uuid,     \* the next value of uuid.uuid4()
    writer,        \* per caller of add_interaction: its position and session
    calls,         \* per interaction_id: the thread and the messages given to
                   \* add_interaction, and whether its commit took place
    last_read,     \* what the reader's latest get_recent_interactions returned
    \* ---- _truncate_text alone -------------------------------------------
    trunc_in,      \* the arguments of a call of _truncate_text
    trunc_out,     \* its result
    \* ---- ShellBot3._create_tools ----------------------------------------
    agent_conf,    \* what _create_tools reads: the 'tools' entry of the conf,
                   \* the custom tools found, the tools whose construction raises
    tools,         \* what _create_tools did: the error raised, the tools
    \* ---- run_chat --------------------------------------------------------
    chat           \* the lines typed, the position of the loop, the calls
                   \* of agent.run made

cvars == <<conf, config, heap, heap0, interactions, cpc, pass, reverse_idx, burden,
           total_length, compacted_recent_to_oldest, applied, result, result1>>

svars == <<db, clock, next_uuid, writer, calls, last_read>>

tvars == <<trunc_in, trunc_out>>

avars == <<agent_conf, tools, chat>>

vars == <<cvars, svars, tvars, avars>>

(***************************************************************************)
(* Bounds of the model.                                                    *)
(***************************************************************************)
MaxLen == 5            \* longest content string of a generated message
MaxInteractions == 2   \* most interactions handed to one call
MaxMessages == 3       \* most messages of one interaction

(***************************************************************************)
(* Python helpers.                                                         *)
(***************************************************************************)
Max(a, b) == IF a >= b THEN a ELSE b
Min(a, b) == IF a <= b THEN a ELSE b

\* s[:n] with Python's treatment of a negative or too large n
PySliceTo(s, n) ==
    IF n >= 0 THEN SubSeq(s, 1, Min(n, Len(s)))
              ELSE SubSeq(s, 1, Max(0, Len(s) + n))

\* s[n:] with Python's treatment of a negative or too large n
PySliceFrom(s, n) ==
    LET start == IF n >= 0 THEN Min(n, Len(s)) ELSE Max(0, Len(s) + n)
    IN  SubSeq(s, start + 1, Len(s))

\* int(a / b) for b > 0: the quotient truncated toward zero
PyIntDiv(a, b) == IF a >= 0 THEN a \div b ELSE 0 - ((0 - a) \div b)

RECURSIVE SumSeq(_)
SumSeq(s) == IF s = <<>> THEN 0 ELSE Head(s) + SumSeq(Tail(s))

RECURSIVE Flatten(_)
Flatten(ss) == IF ss = <<>> THEN <<>> ELSE Head(ss) \o Flatten(Tail(ss))

reversed(s) == [i \in 1..Len(s) |-> s[Len(s) + 1 - i]]

(***************************************************************************)
(* Message dictionaries.  A content value is a string (isstr, text) or     *)
(* something else (absent, None, a list): isstr = FALSE.                   *)
(***************************************************************************)
Str(t) == [isstr |-> TRUE, text |-> t]
NoStr == [isstr |-> FALSE, text |-> <<>>]

\* the characters base+1 .. base+n: a text of length n
MkText(base, n) == [i \in 1..n |-> base + i]
\* a marker of length n (characters 0, which no text holds)
MkMarker(n) == [i \in 1..n |-> 0]

Part(pk, c) == [part_kind |-> pk, content |-> c]

\* The message shapes of a conversation, with a text of length n:
\*   U   request, one user-prompt part
\*   T   response, one text part
\*   R   request, one tool-return part
\*   RU  request, a tool-return part and then a user-prompt part
\*   CT  response, a tool-call part (tool name and call id, no content
\*       string) and a text part
\*   X   a dictionary with a top-level content string and no parts
MkMessage(shape, base, n) ==
    CASE shape = "U"  -> [kind |-> "request",  content |-> NoStr,
                          parts |-> <<Part("user-prompt", Str(MkText(base, n)))>>]
      [] shape = "T"  -> [kind |-> "response", content |-> NoStr,
                          parts |-> <<Part("text", Str(MkText(base, n)))>>]
      [] shape = "R"  -> [kind |-> "request",  content |-> NoStr,
                          parts |-> <<Part("tool-return", Str(MkText(base, n)))>>]
      [] shape = "RU" -> [kind |-> "request",  content |-> NoStr,
                          parts |-> <<Part("tool-return", Str(MkText(base, n))),
                                      Part("user-prompt", Str(MkText(base + n, 1)))>>]
      [] shape = "CT" -> [kind |-> "response", content |-> NoStr,
                          parts |-> <<[part_kind |-> "tool-call", content |-> NoStr,
                                       tool_name |-> "tool", tool_call_id |-> base],
                                      Part("text", Str(MkText(base, n)))>>]
      [] OTHER        -> [kind |-> "other", content |-> Str(MkText(base, n)),
                          parts |-> <<>>]

(***************************************************************************)
(* context_compaction.py                                                   *)
(***************************************************************************)
\* as _message_has_user_prompt, comparing with a misspelt part kind
_message_has_user_prompt_typo(message) ==
    \E i \in DOMAIN message.parts : message.parts[i].part_kind = "user_prompt"

_message_has_user_prompt(message) ==
    \E i \in DOMAIN message.parts : message.parts[i].part_kind = "user-prompt"

_truncate_text_len0(text, head_chars, tail_chars, marker) ==
    IF text = <<>> THEN text
    ELSE LET min_visible == Max(0, head_chars) + Max(0, tail_chars)
         IN  IF Len(text) < min_visible + Len(marker) THEN text
             ELSE PySliceTo(text, head_chars) \o marker
                    \o PySliceFrom(text, 0 - tail_chars)

_truncate_text(text, head_chars, tail_chars, marker) ==
    IF text = <<>> THEN text
    ELSE LET min_visible == Max(0, head_chars) + Max(0, tail_chars)
         IN  IF Len(text) <= min_visible + Len(marker) THEN text
             ELSE PySliceTo(text, head_chars) \o marker
                    \o PySliceFrom(text, 0 - tail_chars)

ContentLen(c) == IF c.isstr THEN Len(c.text) ELSE 0

_message_text_length(message) ==
    SumSeq([i \in DOMAIN message.parts |-> ContentLen(message.parts[i].content)])
      + ContentLen(message.content)

TruncateContent(c, head_chars, tail_chars, marker) ==
    IF c.isstr THEN Str(_truncate_text(c.text, head_chars, tail_chars, marker))
               ELSE c

\* as _truncate_message_content_fields, building every part anew from its
\* part_kind and its content
_truncate_message_content_fields_rebuilt(message, head_chars, tail_chars, marker) ==
    [message EXCEPT
        !.parts = [i \in DOMAIN message.parts |->
                     Part(message.parts[i].part_kind,
                          TruncateContent(message.parts[i].content,
                                          head_chars, tail_chars, marker))],
        !.content = TruncateContent(@, head_chars, tail_chars, marker)]

\* the dictionary after the in-place update of its content fields
_truncate_message_content_fields(message, head_chars, tail_chars, marker) ==
    [message EXCEPT
        !.parts = [i \in DOMAIN message.parts |->
                     [message.parts[i] EXCEPT
                        !.content = TruncateContent(@, head_chars, tail_chars, marker)]],
        !.content = TruncateContent(@, head_chars, tail_chars, marker)]

\* as _dynamic_cutoff, with the ratio floored at 1.0 instead of 0.25
_dynamic_cutoff_floor1(interior_min_length, num, den) ==
    LET low    == num < den
        rn     == IF low THEN 1 ELSE num
        rd     == IF low THEN 1 ELSE den
        cutoff == PyIntDiv(interior_min_length * rd, rn)
        c2     == Max(interior_min_length \div 2, cutoff)
    IN  Min(interior_min_length * 4, c2)

\* burden_ratio = num/den, den > 0
_dynamic_cutoff(interior_min_length, num, den) ==
    LET low    == 4 * num < den              \* burden_ratio < 0.25
        rn     == IF low THEN 1 ELSE num     \* ratio_for_cutoff = rn/rd
        rd     == IF low THEN 4 ELSE den
        cutoff == PyIntDiv(interior_min_length * rd, rn)
        c2     == Max(interior_min_length \div 2, cutoff)
    IN  Min(interior_min_length * 4, c2)

\* whether the loop over range(1, len(messages) - 1) truncates messages[i]
InteriorTruncated(h, messages, i, num, den, cfg) ==
    /\ Len(messages) >= 3
    /\ i \in 2..(Len(messages) - 1)
    /\ ~ _message_has_user_prompt(h[messages[i]])
    /\ _message_text_length(h[messages[i]])
          >= _dynamic_cutoff(cfg.interior_min_length, num, den)

\* as LastTruncated, whatever the burden ratio
LastTruncated_any_ratio(h, messages, num, den, cfg) ==
    /\ messages # <<>>
    /\ ~ _message_has_user_prompt(h[messages[Len(messages)]])
    /\ _message_text_length(h[messages[Len(messages)]]) >= cfg.final_min_length

\* whether the last message is truncated
LastTruncated(h, messages, num, den, cfg) ==
    /\ messages # <<>>
    /\ ~ _message_has_user_prompt(h[messages[Len(messages)]])
    /\ _message_text_length(h[messages[Len(messages)]]) >= cfg.final_min_length
    /\ num >= den                            \* burden_ratio >= 1.0

Trunc(message, cfg) ==
    _truncate_message_content_fields(message, cfg.preserve_head_chars,
                                     cfg.preserve_tail_chars, cfg.truncation_marker)

RECURSIVE ApplyInterior(_, _, _, _, _, _)
\* the for loop of _compact_interaction_messages from index i on
ApplyInterior(h, messages, i, num, den, cfg) ==
    IF i > Len(messages) - 1 THEN h
    ELSE LET h2 == IF InteriorTruncated(h, messages, i, num, den, cfg)
                   THEN [h EXCEPT ![messages[i]] = Trunc(@, cfg)]
                   ELSE h
         IN  ApplyInterior(h2, messages, i + 1, num, den, cfg)

\* the heap after _compact_interaction_messages(messages, burden_ratio, config)
_compact_interaction_messages(h, messages, num, den, cfg) ==
    LET h1 == IF Len(messages) >= 3
              THEN ApplyInterior(h, messages, 2, num, den, cfg)
              ELSE h
    IN  IF LastTruncated(h1, messages, num, den, cfg)
        THEN [h1 EXCEPT ![messages[Len(messages)]] = Trunc(@, cfg)]
        ELSE h1

\* deepcopy(msg.message): the address of the copy (a fresh dictionary)
deepcopy_shared(a, fresh) == a

deepcopy(a, fresh) == fresh

\* max(1.0, config.burden_threshold), in hundredths
threshold(cfg) == 100 * Max(1, cfg.burden_threshold)

\* the test that ends the loop after an interaction was appended
should_break_after_two(n_collected, total, cfg) ==
    n_collected > 1 /\ total > cfg.max_total_length

\* as should_break, for a limit that may be reached but not passed
should_break_reaching(n_collected, total, cfg) ==
    n_collected >= 1 /\ total >= cfg.max_total_length

should_break(n_collected, total, cfg) ==
    n_collected >= 1 /\ total > cfg.max_total_length

\* the weight of the interaction at reverse_idx, in hundredths
weight_flat(cfg, idx) == cfg.base_weight

weight(cfg, idx) == cfg.base_weight + cfg.weight_growth * idx

\* max(0.0, weight)
nonnegative_or_not(w) == w

nonnegative(w) == Max(0, w)

TextLenOf(h, addrs) ==
    SumSeq([i \in DOMAIN addrs |-> _message_text_length(h[addrs[i]])])

\* the order in which the loop visits the interactions
walk_oldest_first(s) == s

walk(s) == reversed(s)

(***************************************************************************)
(* The call compact_recent_interactions(interactions, config).             *)
(***************************************************************************)
\* lines 169-180: the empty case, and the locals
CompactBegin ==
    /\ cpc = "start"
    /\ IF interactions = <<>>
       THEN /\ cpc' = "done"
            /\ result' = <<>>
       ELSE /\ cpc' = "loop"
            /\ UNCHANGED result
    /\ reverse_idx' = 0
    /\ burden' = 0
    /\ total_length' = 0
    /\ compacted_recent_to_oldest' = <<>>
    /\ applied' = <<>>
    /\ UNCHANGED <<conf, config, heap, heap0, interactions, pass, result1, svars, tvars, avars>>

\* lines 182-205: one iteration of the loop; on the break or after the last
\* interaction, the reversal and the flattening of the return statement
CompactIterate ==
    /\ cpc = "loop"
    /\ LET interaction == walk(interactions)[reverse_idx + 1]
           n        == Len(heap)
           k        == Len(interaction)
           messages == [i \in 1..k |-> deepcopy(interaction[i], n + i)]
           hcopy    == [a \in 1..(n + k) |->
                          IF a <= n THEN heap[a] ELSE heap[interaction[a - n]]]
           interaction_len == TextLenOf(hcopy, messages)
           burden2  == burden + nonnegative(weight(config, reverse_idx)) * interaction_len
           den      == threshold(config)
           hdone    == _compact_interaction_messages(hcopy, messages, burden2, den, config)
           acc      == Append(compacted_recent_to_oldest, messages)
           total2   == total_length + TextLenOf(hdone, messages)
           stop     == \/ should_break(Len(acc), total2, config)
                       \/ reverse_idx + 1 = Len(interactions)
       IN  /\ heap' = hdone
           /\ burden' = burden2
           /\ applied' = Append(applied, [num |-> burden2, den |-> den])
           /\ compacted_recent_to_oldest' = acc
           /\ total_length' = total2
           /\ reverse_idx' = reverse_idx + 1
           /\ IF stop
              THEN /\ cpc' = "done"
                   /\ result' = Flatten(reversed(acc))
              ELSE /\ cpc' = "loop"
                   /\ UNCHANGED result
    /\ UNCHANGED <<conf, config, heap0, interactions, pass, result1, svars, tvars, avars>>

Payloads(h, addrs) == [i \in DOMAIN addrs |-> h[addrs[i]]]

\* the caller hands the returned messages, grouped as they were, to a second
\* call with the same config
CompactAgain ==
    /\ cpc = "done"
    /\ pass = 1
    /\ pass' = 2
    /\ cpc' = "start"
    /\ interactions' = reversed(compacted_recent_to_oldest)
    /\ result1' = Payloads(heap, result)
    /\ heap0' = heap
    /\ UNCHANGED <<conf, config, heap, reverse_idx, burden, total_length,
                   compacted_recent_to_oldest, applied, result, svars, tvars, avars>>

(***************************************************************************)
(* The calls explored: configs and interaction lists.                      *)
(***************************************************************************)
\* ContextCompactionConfig's defaults
DefaultConfig ==
    [burden_threshold |-> 80000, base_weight |-> 100, weight_growth |-> 35,
     interior_min_length |-> 700, final_min_length |-> 3500,
     preserve_head_chars |-> 240, preserve_tail_chars |-> 240,
     truncation_marker |-> MkMarker(29), max_total_length |-> 60000]

\* small configs, as ContextCompactionConfig.from_dict builds them from any
\* mapping of numbers (it validates no range)
SmallConfigs ==
    {c \in [burden_threshold: {0, 12}, base_weight: {100}, weight_growth: {35},
            interior_min_length: {3}, final_min_length: {2, 5},
            preserve_head_chars: {0, 1}, preserve_tail_chars: {0, 1},
            truncation_marker: {MkMarker(1)}, max_total_length: {-1, 4, 100}] :
        c.preserve_tail_chars <= c.preserve_head_chars}

MsgSpec(shape, n) == [shape |-> shape, n |-> n]

Shapes == {"U", "T", "RU", "CT", "X"}
MsgPool == {MsgSpec(sh, n) : sh \in Shapes, n \in 0..MaxLen}
FirstPool == {MsgSpec("U", 1), MsgSpec("T", MaxLen)}
LastPool == {MsgSpec("U", MaxLen), MsgSpec("T", 1), MsgSpec("T", MaxLen)}

\* the most recent interaction: one message; or a first and a last message;
\* or a user prompt, interior messages of one shape and a last message
NewestPool ==
    {<<m>> : m \in MsgPool}
      \cup {<<f, l>> : f \in FirstPool, l \in MsgPool}
      \cup UNION {{<<MsgSpec("U", 1)>> \o [i \in 1..k |-> m] \o <<l>> :
                      m \in MsgPool, l \in LastPool} :
                  k \in 1..(MaxMessages - 2)}

OlderPool ==
    {<<MsgSpec("U", 1), MsgSpec("T", MaxLen)>>,
     <<MsgSpec("U", 1), MsgSpec("R", MaxLen), MsgSpec("T", 2)>>}

\* interaction lists, oldest first
RECURSIVE OlderLists(_)
OlderLists(n) ==
    IF n = 0 THEN {<<>>}
    ELSE {<<o>> \o rest : o \in OlderPool, rest \in OlderLists(n - 1)}

InputSpecs ==
    {<<>>} \cup UNION {{older \o <<newest>> :
                           older \in OlderLists(n), newest \in NewestPool} :
                       n \in 0..(MaxInteractions - 1)}

\* the message dictionaries of an interaction list, in address order
HeapOf(input) ==
    Flatten([i \in DOMAIN input |->
               [j \in DOMAIN input[i] |->
                  MkMessage(input[i][j].shape, 100 * i + 10 * j, input[i][j].n)]])

\* the interactions of an interaction list, as lists of addresses
RefsOf(input) ==
    [i \in DOMAIN input |->
       LET before == SumSeq([x \in 1..(i - 1) |-> Len(input[x])])
       IN  [j \in DOMAIN input[i] |-> before + j]]

\* the scenario of the specification's section 8: an interaction with an
\* interior tool-result message of 5000 characters, default config, and a
\* burden_threshold that makes burden_ratio 2.0
ScenarioInput == <<<<MsgSpec("U", 10), MsgSpec("R", 5000), MsgSpec("T", 10)>>>>
ScenarioConfigs ==
    {[DefaultConfig EXCEPT !.burden_threshold = t] : t \in {2510, 80000}}

\* the parts of the state a specification does not use
StoreIdle ==
    /\ db = <<>>
    /\ clock = 0
    /\ next_uuid = 1
    /\ writer = <<>>
    /\ calls = <<>>
    /\ last_read = [called |-> FALSE]

TruncIdle ==
    /\ trunc_in = [called |-> FALSE]
    /\ trunc_out = <<>>

AgentIdle ==
    /\ agent_conf = <<>>
    /\ tools = <<>>
    /\ chat = <<>>

CompactState(cfg, input) ==
    /\ conf = <<>>
    /\ config = cfg
    /\ heap = HeapOf(input)
    /\ heap0 = HeapOf(input)
    /\ interactions = RefsOf(input)
    /\ cpc = "start"
    /\ pass = 1
    /\ reverse_idx = 0
    /\ burden = 0
    /\ total_length = 0
    /\ compacted_recent_to_oldest = <<>>
    /\ applied = <<>>
    /\ result = <<>>
    /\ result1 = <<>>

CompactIdle == CompactState(DefaultConfig, <<>>)

CompactStart(cfg, input) ==
    /\ AgentIdle
    /\ StoreIdle
    /\ TruncIdle
    /\ CompactState(cfg, input)

CompactInit ==
    \/ \E cfg \in SmallConfigs, input \in InputSpecs : CompactStart(cfg, input)
    \/ \E cfg \in ScenarioConfigs : CompactStart(cfg, ScenarioInput)

\* configs whose weights are negative at the most recent interaction, at
\* an older one, or nowhere
WeightConfigs ==
    [burden_threshold: {0, 12}, base_weight: {-100, 100},
     weight_growth: {-150, 35, 200},
     interior_min_length: {3}, final_min_length: {2},
     preserve_head_chars: {1}, preserve_tail_chars: {1},
     truncation_marker: {MkMarker(1)}, max_total_length: {100}]

WeightInit ==
    \E cfg \in WeightConfigs, input \in InputSpecs : CompactStart(cfg, input)

CompactNext == CompactBegin \/ CompactIterate \/ CompactAgain

CompactSpec == CompactInit /\ [][CompactNext]_vars

\* one call, for the configs with negative weights
WeightNext == CompactBegin \/ CompactIterate

WeightSpec == WeightInit /\ [][WeightNext]_vars

(***************************************************************************)
(* Vocabulary of the compaction claims.                                    *)
(***************************************************************************)
Newest == interactions[Len(interactions)]

\* the number of interactions the call collected
Included == Len(compacted_recent_to_oldest)

\* the addresses of the source messages of the collected interactions,
\* oldest first: what the returned list is a compaction of
Sources ==
    Flatten(SubSeq(interactions, Len(interactions) - Included + 1, Len(interactions)))

FirstPartIsUserPrompt(message) ==
    message.parts # <<>> /\ message.parts[1].part_kind = "user-prompt"

\* out is src, unchanged or with its content fields truncated under config
IsCompactionOf(out, src) == out = src \/ out = Trunc(src, config)

Returned == cpc = "done"

\* C1: from a non-empty interaction list the call never returns an empty
\* list: for every config (max_total_length <= 0 included) the returned list
\* ends with the messages of the most recent interaction, each unchanged or
\* truncated.
C1_MostRecentReturned ==
    (Returned /\ interactions # <<>>) =>
        /\ result # <<>>
        /\ Len(result) >= Len(Newest)
        /\ \A j \in DOMAIN Newest :
              IsCompactionOf(heap[result[Len(result) - Len(Newest) + j]],
                             heap0[Newest[j]])

C1_Witness ==
    /\ Returned /\ pass = 1
    /\ Len(interactions) = 2
    /\ config.max_total_length <= 0
    /\ Len(Newest) = 3
    /\ Len(result) = 3

\* C2: a message whose first part is a user-prompt comes back with every
\* content field equal to the stored one, at any position of its
\* interaction, whatever its length, the burden ratio and the config.
C2_UserPromptVerbatim ==
    Returned =>
        /\ Len(result) = Len(Sources)
        /\ \A j \in DOMAIN result :
              FirstPartIsUserPrompt(heap0[Sources[j]])
                 => heap[result[j]] = heap0[Sources[j]]

\* a long user prompt in the interior and another as the last message, under
\* a burden ratio >= 1.0 and a final_min_length it reaches
C2_Witness ==
    /\ Returned /\ pass = 1
    /\ interactions # <<>>
    /\ Len(Newest) = 3
    /\ \A j \in {2, 3} :
          /\ FirstPartIsUserPrompt(heap0[Newest[j]])
          /\ _message_text_length(heap0[Newest[j]]) = MaxLen
    /\ applied[1].num >= applied[1].den
    /\ config.final_min_length <= MaxLen
    /\ config.preserve_head_chars + config.preserve_tail_chars
          + Len(config.truncation_marker) < MaxLen

\* C3: the call never changes its input: every message dictionary of every
\* interaction handed in equals what it was when the call started.
C3_InputNotMutated ==
    \A i \in DOMAIN interactions : \A j \in DOMAIN interactions[i] :
        heap[interactions[i][j]] = heap0[interactions[i][j]]

\* a returned message differs from its source: a truncation took place
C3_Witness ==
    /\ Returned
    /\ \E j \in DOMAIN result : heap[result[j]] # heap0[Sources[j]]

\* C8: compacting the output again, grouped as it was and with the same
\* config, returns the same messages with the same content.
C8_Idempotent ==
    (Returned /\ pass = 2) => Payloads(heap, result) = result1

\* C9 as stated: when max_total_length is lower than the text length of the
\* smallest interaction, exactly the most recent interaction is returned.
C9_Original ==
    (/\ Returned
     /\ interactions # <<>>
     /\ \A i \in DOMAIN interactions :
           config.max_total_length < TextLenOf(heap0, interactions[i]))
       => /\ Included = 1
          /\ Len(result) = Len(Newest)

\* C9 as amended: when max_total_length is lower than the text length the
\* most recent interaction has after its own truncation, exactly the
\* messages of the most recent interaction are returned, and no message of
\* an older one.
C9_OneInteraction ==
    (/\ Returned
     /\ interactions # <<>>
     /\ config.max_total_length
           < TextLenOf(heap, compacted_recent_to_oldest[1]))
       => /\ Included = 1
          /\ Len(result) = Len(Newest)
          /\ \A j \in DOMAIN Newest :
                IsCompactionOf(heap[result[j]], heap0[Newest[j]])

\* two interactions, both longer than max_total_length, the most recent one
\* truncated and still longer than max_total_length
C9_Witness ==
    /\ Returned /\ pass = 1
    /\ Len(interactions) = 2
    /\ \A i \in DOMAIN interactions :
          config.max_total_length < TextLenOf(heap0, interactions[i])
    /\ config.max_total_length > 0
    /\ config.max_total_length < TextLenOf(heap, compacted_recent_to_oldest[1])
    /\ TextLenOf(heap, compacted_recent_to_oldest[1]) < TextLenOf(heap0, Newest)
    /\ Len(result) = Len(Newest)

\* max(0.25, num/den) as a fraction
RatioForCutoff(num, den) ==
    IF 4 * num < den THEN [num |-> 1, den |-> 4] ELSE [num |-> num, den |-> den]

\* len >= clamp(iml/2, iml / max(0.25, ratio), iml*4) over the rationals
AtCutoffExact(len, iml, num, den) ==
    LET r == RatioForCutoff(num, den)
    IN  \/ len >= 4 * iml
        \/ /\ 2 * len >= iml
           /\ len * r.num >= iml * r.den

\* len >= the same cutoff with both quotients rounded down to integers
AtCutoffRounded(len, iml, num, den) ==
    LET r == RatioForCutoff(num, den)
    IN  \/ len >= 4 * iml
        \/ /\ len >= iml \div 2
           /\ len >= (iml * r.den) \div r.num

\* every interior message without a user-prompt part of every collected
\* interaction of at least 3 messages comes back truncated when
\* AtCutoff(its length, interior_min_length, ratio) and unchanged otherwise
InteriorRule(AtCutoff(_, _, _, _)) ==
    \A r \in 1..Included :
        LET srcs   == reversed(interactions)[r]
            copies == compacted_recent_to_oldest[r]
        IN  Len(srcs) >= 3 =>
              \A j \in 2..(Len(srcs) - 1) :
                 LET src == heap0[srcs[j]]
                 IN  ~ _message_has_user_prompt(src) =>
                       heap[copies[j]] =
                          IF AtCutoff(_message_text_length(src),
                                      config.interior_min_length,
                                      applied[r].num, applied[r].den)
                          THEN Trunc(src, config)
                          ELSE src

\* the scenario: interior_min_length = 700, burden_ratio = 2.0, head = tail =
\* 240 and an interior message of 5000 characters in one content field
InScenario(r, src) ==
    /\ config.interior_min_length = 700
    /\ applied[r].num = 2 * applied[r].den
    /\ config.preserve_head_chars = 240
    /\ config.preserve_tail_chars = 240
    /\ Len(src.parts) = 1
    /\ ~ _message_has_user_prompt(src)
    /\ _message_text_length(src) = 5000

ScenarioRule ==
    \A r \in 1..Included :
        LET srcs   == reversed(interactions)[r]
            copies == compacted_recent_to_oldest[r]
        IN  Len(srcs) >= 3 =>
              \A j \in 2..(Len(srcs) - 1) :
                 InScenario(r, heap0[srcs[j]]) =>
                    _message_text_length(heap[copies[j]])
                       = 240 + Len(config.truncation_marker) + 240

\* C10 as stated: an interior message without a user-prompt part is
\* truncated exactly when its text length is >= interior_min_length /
\* max(0.25, burden_ratio) clamped to [interior_min_length/2,
\* interior_min_length*4], the quotients taken exactly.
C10_Original ==
    Returned => InteriorRule(AtCutoffExact) /\ ScenarioRule

\* C10 as amended: the cutoff is an integer, int(interior_min_length /
\* max(0.25, burden_ratio)) clamped to [interior_min_length // 2,
\* interior_min_length * 4], both quotients rounded down; with
\* interior_min_length = 700 and burden_ratio = 2.0 it is 350 and an interior
\* message of 5000 characters comes back with 240 + len(marker) + 240.
C10_InteriorCutoff ==
    Returned => InteriorRule(AtCutoffRounded) /\ ScenarioRule

C10_Witness ==
    /\ Returned /\ pass = 1
    /\ interactions # <<>>
    /\ Len(Newest) = 3
    /\ InScenario(1, heap0[Newest[2]])
    /\ _message_text_length(heap[result[2]]) = 509

(***************************************************************************)
(* _truncate_text on its own, with the default head and tail (240, 240),   *)
(* on texts around the boundary head + tail + len(marker).                 *)
(***************************************************************************)
MaxMarkerLen == 2      \* markers of length 0..MaxMarkerLen, and the default one
TruncSlack == 10       \* text lengths up to 240 + 240 + 29 + TruncSlack

TruncMarkers ==
    {MkMarker(m) : m \in 0..MaxMarkerLen} \cup {DefaultConfig.truncation_marker}

TruncLens ==
    0..(DefaultConfig.preserve_head_chars + DefaultConfig.preserve_tail_chars
          + Len(DefaultConfig.truncation_marker) + TruncSlack)

TruncInit ==
    /\ AgentIdle
    /\ StoreIdle
    /\ CompactIdle
    /\ \E n \in TruncLens, marker \in TruncMarkers :
          trunc_in = [called |-> FALSE,
                      text |-> MkText(0, n),
                      head_chars |-> DefaultConfig.preserve_head_chars,
                      tail_chars |-> DefaultConfig.preserve_tail_chars,
                      marker |-> marker]
    /\ trunc_out = <<>>

TruncCall ==
    /\ ~ trunc_in.called
    /\ trunc_in' = [trunc_in EXCEPT !.called = TRUE]
    /\ trunc_out' = _truncate_text(trunc_in.text, trunc_in.head_chars,
                                   trunc_in.tail_chars, trunc_in.marker)
    /\ UNCHANGED <<cvars, svars, avars>>

TruncNext == TruncCall

TruncSpec == TruncInit /\ [][TruncNext]_vars

\* C7: with head = 240 and tail = 240, a text of length L and a marker of
\* length M give the first 240 characters, the marker and the last 240
\* characters (240 + M + 240 in all) when L > 240 + 240 + M, and the text
\* itself when L <= 240 + 240 + M.
C7_TruncationBoundary ==
    trunc_in.called =>
        LET text == trunc_in.text
            L    == Len(text)
            M    == Len(trunc_in.marker)
        IN  /\ trunc_in.head_chars = 240
            /\ trunc_in.tail_chars = 240
            /\ IF L > 240 + 240 + M
               THEN /\ Len(trunc_out) = 240 + M + 240
                    /\ trunc_out = SubSeq(text, 1, 240) \o trunc_in.marker
                                      \o SubSeq(text, L - 239, L)
               ELSE trunc_out = text

\* the shortest text the default marker lets be truncated
C7_Witness ==
    /\ trunc_in.called
    /\ Len(trunc_in.marker) = 29
    /\ Len(trunc_in.text) = 240 + 240 + 29 + 1
    /\ Len(trunc_out) = 240 + 29 + 240

(***************************************************************************)
(* message_history.py: the table `messages` and MessageHistory.            *)
(*                                                                         *)
(* A row is [id, thread_id, interaction_id, message, created_at].  The     *)
(* clock never runs backwards; two calls of datetime.now() may return the  *)
(* same value.  A datetime is a number of ticks, TicksPerSecond to the     *)
(* second.  SQLite returns rows with equal created_at in id order.         *)
(*                                                                         *)
(* A read is one SELECT: its result is fixed when the reader's action is   *)
(* taken and is held in last_read until the reader returns.                *)
(***************************************************************************)
MaxRows == 4           \* most messages given to add_interaction in a run
MaxBatch == 2          \* most messages given to one add_interaction
MaxLimit == 3          \* largest `limit` of a read
TicksPerSecond == 2    \* the clock's resolution in the model

Threads == {"t1", "t2"}
Writers == {"w1", "w2"}

\* json.dumps and json.loads on the messages of the model, which are JSON
\* values (dicts with string keys, lists, strings): the text is not the value,
\* and loading it gives the value back
json_dumps(message) == [json |-> message]
json_loads(text) == text.json

\* the j-th message a caller gives to its n-th add_interaction: the user
\* prompt first, the model's responses after it (agent.py, on_complete)
GivenMessage(n, j) ==
    MkMessage(IF j = 1 THEN "U" ELSE "T", 10 * n + j, 1)

\* a message given as a str: a text of two characters
GivenString(n) == Str(MkText(10 * n, 2))

\* what the agent gives to add_interaction: a list of messages
GivenByAgent(n) ==
    {[single |-> FALSE, one |-> <<>>,
      many |-> [j \in 1..k |-> GivenMessage(n, j)]] : k \in 1..MaxBatch}

\* what add_interaction is given: one message (a str), or a list of messages
GivenLists(n) ==
    {[single |-> TRUE, one |-> GivenString(n), many |-> <<>>]}
      \cup GivenByAgent(n)

\* as AsList, without the test of isinstance: the loop runs over the
\* characters of a str
AsList_iterated(messages) ==
    IF messages.single
    THEN [i \in DOMAIN messages.one.text |-> Str(<<messages.one.text[i]>>)]
    ELSE messages.many

\* isinstance(messages, str): a single message is wrapped into a list
AsList(messages) == IF messages.single THEN <<messages.one>> ELSE messages.many

\* as written_on_add, for a session that commits after every add
written_on_add_each(row) == <<row>>

\* the rows a session sends to the database when a row is added to it: none
\* (a flush happens on a query or on commit, and no query is made)
written_on_add(row) == <<>>

\* as Inserted, for a table that keeps the last write of a thread only: the
\* rows written replace the rows the thread had
Inserted_replacing(table, rows) ==
    LET Kept(row) == \A i \in DOMAIN rows : rows[i].thread_id # row.thread_id
    IN  SelectSeq(table, Kept)
          \o [i \in DOMAIN rows |->
                [id |-> Len(table) + i,
                 thread_id |-> rows[i].thread_id,
                 interaction_id |-> rows[i].interaction_id,
                 message |-> rows[i].message,
                 created_at |-> rows[i].created_at]]

\* the rows of a session inserted at the end of the table: ids are given in
\* the order of session.add
Inserted(table, rows) ==
    table \o [i \in DOMAIN rows |->
                [id |-> Len(table) + i,
                 thread_id |-> rows[i].thread_id,
                 interaction_id |-> rows[i].interaction_id,
                 message |-> rows[i].message,
                 created_at |-> rows[i].created_at]]

IdleWriter == [pc |-> "idle", thread_id |-> "", interaction_id |-> 0,
               todo |-> <<>>, session |-> <<>>]

\* the messages given to add_interaction so far
RowsGiven == SumSeq([i \in DOMAIN calls |-> Len(calls[i].messages)])

ReaderIdle == ~ last_read.called

\* add_interaction, lines 161-166: the list, the uuid, the session
AddInteractionBegin(w, t, messages) ==
    /\ ReaderIdle
    /\ writer[w].pc = "idle"
    /\ RowsGiven + Len(AsList(messages)) <= MaxRows
    /\ writer' = [writer EXCEPT ![w] =
                    [pc |-> "adding", thread_id |-> t, interaction_id |-> next_uuid,
                     todo |-> AsList(messages), session |-> <<>>]]
    /\ next_uuid' = next_uuid + 1
    /\ calls' = Append(calls, [thread_id |-> t, messages |-> AsList(messages),
                               given |-> messages, committed |-> FALSE])
    /\ UNCHANGED <<db, clock, last_read, cvars, tvars, avars>>

\* lines 167-174: one turn of the loop; the clock may have moved on since
\* the previous call of datetime.now()
AddInteractionAdd(w) ==
    /\ ReaderIdle
    /\ writer[w].pc = "adding"
    /\ writer[w].todo # <<>>
    /\ \E now \in {clock, clock + 1} :
          LET msg == [thread_id |-> writer[w].thread_id,
                      interaction_id |-> writer[w].interaction_id,
                      message |-> json_dumps(Head(writer[w].todo)),
                      created_at |-> now]
              sent == written_on_add(msg)
          IN  /\ clock' = now
              /\ db' = Inserted(db, sent)
              /\ writer' = [writer EXCEPT
                              ![w].todo = Tail(@),
                              ![w].session = IF sent = <<>> THEN Append(@, msg) ELSE @]
    /\ UNCHANGED <<next_uuid, calls, last_read, cvars, tvars, avars>>

\* lines 176-177: session.commit() inserts the session's rows in one
\* transaction
AddInteractionCommit(w) ==
    /\ ReaderIdle
    /\ writer[w].pc = "adding"
    /\ writer[w].todo = <<>>
    /\ db' = Inserted(db, writer[w].session)
    /\ calls' = [calls EXCEPT ![writer[w].interaction_id].committed = TRUE]
    /\ writer' = [writer EXCEPT ![w] = IdleWriter]
    /\ UNCHANGED <<clock, next_uuid, last_read, cvars, tvars, avars>>

\* datetime.isoformat(): seconds in two digits, and the fraction only when
\* it is not zero ('0'..'9' are 48..57, '.' is 46)
isoformat(t) ==
    LET sec == t \div TicksPerSecond
        us  == t % TicksPerSecond
    IN  <<48 + (sec \div 10), 48 + (sec % 10)>>
           \o (IF us = 0 THEN <<>> ELSE <<46, 48 + us>>)

\* a < b for strings
RECURSIVE StrLess(_, _)
StrLess(a, b) ==
    IF b = <<>> THEN FALSE
    ELSE IF a = <<>> THEN TRUE
    ELSE IF Head(a) # Head(b) THEN Head(a) < Head(b)
    ELSE StrLess(Tail(a), Tail(b))

\* ORDER BY created_at over rows in id order (rows of equal created_at
\* stay in id order)
RECURSIVE InsertRow(_, _)
InsertRow(sorted, row) ==
    IF sorted = <<>> THEN <<row>>
    ELSE IF sorted[Len(sorted)].created_at <= row.created_at
         THEN Append(sorted, row)
         ELSE Append(InsertRow(SubSeq(sorted, 1, Len(sorted) - 1), row),
                     sorted[Len(sorted)])

RECURSIVE order_by_created_at(_)
order_by_created_at(rows) ==
    IF rows = <<>> THEN <<>>
    ELSE InsertRow(order_by_created_at(SubSeq(rows, 1, Len(rows) - 1)),
                   rows[Len(rows)])

\* result.sort(key=lambda x: x.created_at or ""): a stable sort on the
\* isoformat strings
RECURSIVE InsertInteraction(_, _)
InsertInteraction(sorted, x) ==
    IF sorted = <<>> THEN <<x>>
    ELSE IF ~ StrLess(x.created_at, sorted[Len(sorted)].created_at)
         THEN Append(sorted, x)
         ELSE Append(InsertInteraction(SubSeq(sorted, 1, Len(sorted) - 1), x),
                     sorted[Len(sorted)])

RECURSIVE sort_by_created_at(_)
sort_by_created_at(xs) ==
    IF xs = <<>> THEN <<>>
    ELSE InsertInteraction(sort_by_created_at(SubSeq(xs, 1, Len(xs) - 1)),
                           xs[Len(xs)])

\* as QueryThread, without the filter on thread_id
QueryThread_unfiltered(table, t) == order_by_created_at(table)

\* the query of get_all_interactions
QueryThread(table, t) ==
    LET InThread(row) == row.thread_id = t
    IN  order_by_created_at(SelectSeq(table, InThread))

\* the keys of interactions_dict, in insertion order
RECURSIVE GroupKeys(_)
GroupKeys(rows) ==
    IF rows = <<>> THEN <<>>
    ELSE LET before == GroupKeys(SubSeq(rows, 1, Len(rows) - 1))
             key    == rows[Len(rows)].interaction_id
         IN  IF \E i \in DOMAIN before : before[i] = key
             THEN before ELSE Append(before, key)

MessageObject(row) ==
    [id |-> row.id, thread_id |-> row.thread_id,
     interaction_id |-> row.interaction_id,
     message |-> json_loads(row.message), created_at |-> row.created_at]

\* the interaction_id of a row written by add_message or add_messages: NULL
NoInteraction == 0

\* f"standalone-{msg.id}": an id that no add_interaction gives
standalone(id) == 0 - id

\* get_all_interactions(thread_id) on the committed table: the interactions
\* of interactions_dict, then the standalone messages, then the sort
get_all_interactions(table, t) ==
    LET messages == QueryThread(table, t)
        InDict(row) == row.interaction_id # NoInteraction
        Alone(row)  == row.interaction_id = NoInteraction
        keys     == GroupKeys(SelectSeq(messages, InDict))
        standalone_messages == SelectSeq(messages, Alone)
        Group(k) == LET Has(row) == row.interaction_id = k
                    IN  SelectSeq(messages, Has)
        grouped  == [i \in DOMAIN keys |->
                       [interaction_id |-> keys[i],
                        thread_id |-> t,
                        messages |-> [j \in DOMAIN Group(keys[i]) |->
                                         MessageObject(Group(keys[i])[j])],
                        created_at |-> isoformat(Group(keys[i])[1].created_at)]]
        alone    == [i \in DOMAIN standalone_messages |->
                       [interaction_id |-> standalone(standalone_messages[i].id),
                        thread_id |-> t,
                        messages |-> <<MessageObject(standalone_messages[i])>>,
                        created_at |-> isoformat(standalone_messages[i].created_at)]]
    IN  sort_by_created_at(grouped \o alone)

\* get_recent_interactions(thread_id, limit, messages_only)
get_recent_interactions(table, t, limit, messages_only) ==
    LET all_interactions == get_all_interactions(table, t)
        limit2 == IF limit >= Len(all_interactions)
                  THEN Len(all_interactions) ELSE limit
        recent == PySliceFrom(all_interactions, 0 - limit2)
    IN  IF messages_only
        THEN Flatten([i \in DOMAIN recent |-> recent[i].messages])
        ELSE recent

\* a reader, in a session of its own, calls get_all_interactions
GetAllInteractions(t) ==
    /\ ReaderIdle
    /\ last_read' = [called |-> TRUE, op |-> "get_all_interactions",
                     thread_id |-> t, limit |-> 0, messages_only |-> FALSE,
                     result |-> get_all_interactions(db, t)]
    /\ UNCHANGED <<db, clock, next_uuid, writer, calls, cvars, tvars, avars>>

\* a reader, in a session of its own, calls get_recent_interactions
GetRecentInteractions(t, limit, messages_only) ==
    /\ ReaderIdle
    /\ last_read' = [called |-> TRUE, op |-> "get_recent_interactions",
                     thread_id |-> t, limit |-> limit,
                     messages_only |-> messages_only,
                     result |-> get_recent_interactions(db, t, limit, messages_only)]
    /\ UNCHANGED <<db, clock, next_uuid, writer, calls, cvars, tvars, avars>>

\* the reader's call returns
ReadReturn ==
    /\ last_read.called
    /\ last_read' = [called |-> FALSE]
    /\ UNCHANGED <<db, clock, next_uuid, writer, calls, cvars, tvars, avars>>

Init ==
    /\ AgentIdle
    /\ CompactIdle
    /\ TruncIdle
    /\ db = <<>>
    /\ clock = 0
    /\ next_uuid = 1
    /\ writer = [w \in Writers |-> IdleWriter]
    /\ calls = <<>>
    /\ last_read = [called |-> FALSE]

\* the threads the next call of add_interaction may be on: thread ids are
\* interchangeable, and the first call is on "t1"
FirstThreads == IF next_uuid = 1 THEN {"t1"} ELSE Threads

\* callers of add_interaction in concurrent sessions, and a reader
Next ==
    \/ \E w \in Writers, t \in FirstThreads, m \in GivenByAgent(next_uuid) :
          AddInteractionBegin(w, t, m)
    \/ \E w \in Writers : AddInteractionAdd(w)
    \/ \E w \in Writers : AddInteractionCommit(w)
    \/ \E t \in Threads : GetAllInteractions(t)
    \/ ReadReturn

Spec == Init /\ [][Next]_vars

\* one caller: the calls of add_interaction and the reads follow one another
SeqNext ==
    \/ \E t \in FirstThreads, m \in GivenLists(next_uuid) :
          AddInteractionBegin("w1", t, m)
    \/ AddInteractionAdd("w1")
    \/ AddInteractionCommit("w1")
    \/ \E t \in Threads, limit \in 0..MaxLimit, messages_only \in BOOLEAN :
          /\ writer["w1"].pc = "idle"
          /\ GetRecentInteractions(t, limit, messages_only)
    \/ ReadReturn

SeqSpec == Init /\ [][SeqNext]_vars

(***************************************************************************)
(* Claims about MessageHistory.                                            *)
(***************************************************************************)
\* the payloads of an interaction's messages, in the order returned
PayloadsOf(messages) == [j \in DOMAIN messages |-> messages[j].message]

\* the rows of the committed table that belong to interaction iid
RowsOf(iid) ==
    LET Has(row) == row.interaction_id = iid
    IN  SelectSeq(db, Has)

\* the writers between their first session.add and their commit
InFlight ==
    {w \in Writers : writer[w].pc = "adding" /\ writer[w].session # <<>>}

\* C4: while an add_interaction of k messages is in flight, a reader in
\* another session observes none or all k of its messages, never a
\* non-empty proper subset: the committed table holds none or all of the
\* rows of every call, and every interaction a reader is returned carries
\* exactly the messages its call was given.
C4_AllOrNothing ==
    /\ \A iid \in DOMAIN calls :
          \/ RowsOf(iid) = <<>>
          \/ PayloadsOf([j \in DOMAIN RowsOf(iid) |-> MessageObject(RowsOf(iid)[j])])
                = calls[iid].messages
    /\ (last_read.called /\ last_read.op = "get_all_interactions") =>
          /\ \A i \in DOMAIN last_read.result :
                PayloadsOf(last_read.result[i].messages)
                   = calls[last_read.result[i].interaction_id].messages
          /\ \A w \in Writers :
                writer[w].pc = "adding" =>
                   \A i \in DOMAIN last_read.result :
                      last_read.result[i].interaction_id # writer[w].interaction_id

\* a reader has read a thread while an add_interaction of two messages on
\* that thread had added its first message and not yet committed, and
\* another interaction of the thread was already committed
C4_Witness ==
    /\ last_read.called
    /\ last_read.op = "get_all_interactions"
    /\ Len(last_read.result) >= 1
    /\ \E w \in InFlight :
          /\ writer[w].thread_id = last_read.thread_id
          /\ Len(calls[writer[w].interaction_id].messages) = 2
          /\ Len(writer[w].session) = 1

\* the committed calls of add_interaction on thread t, in the order of the
\* calls
ThreadCalls(t) ==
    LET OnThread(iid) == calls[iid].thread_id = t /\ calls[iid].committed
    IN  SelectSeq([iid \in DOMAIN calls |-> iid], OnThread)

\* what was appended to thread t: each interaction with the messages it was
\* given
Appended(t) ==
    [i \in DOMAIN ThreadCalls(t) |->
        [interaction_id |-> ThreadCalls(t)[i],
         thread_id |-> t,
         messages |-> calls[ThreadCalls(t)[i]].messages]]

\* what a list of returned interactions says was appended
Shown(xs) ==
    [i \in DOMAIN xs |->
        [interaction_id |-> xs[i].interaction_id,
         thread_id |-> xs[i].thread_id,
         messages |-> PayloadsOf(xs[i].messages)]]

IsSuffix(a, b) ==
    /\ Len(a) <= Len(b)
    /\ a = SubSeq(b, Len(b) - Len(a) + 1, Len(b))

\* the last k elements of a list
LastK(xs, k) == SubSeq(xs, Len(xs) - k + 1, Len(xs))

ReadRecent == last_read.called /\ last_read.op = "get_recent_interactions"

\* what get_recent_interactions returned is the end of what was appended to
\* the thread, in the order appended
C5_OnlyThisThreadInOrder ==
    ReadRecent =>
       IF last_read.messages_only
       THEN /\ IsSuffix(PayloadsOf(last_read.result),
                        Flatten([i \in DOMAIN Appended(last_read.thread_id) |->
                                    Appended(last_read.thread_id)[i].messages]))
            /\ \A j \in DOMAIN last_read.result :
                  last_read.result[j].thread_id = last_read.thread_id
       ELSE IsSuffix(Shown(last_read.result), Appended(last_read.thread_id))

\* a commit of an add_interaction on another thread leaves what
\* get_recent_interactions returns for a thread as it was
C5_OtherThreadAppend ==
    \A w \in Writers, t \in Threads :
       (writer[w].pc = "adding" /\ writer'[w].pc = "idle"
          /\ writer[w].thread_id # t) =>
          \A limit \in 0..MaxLimit, messages_only \in BOOLEAN :
             get_recent_interactions(db', t, limit, messages_only)
                = get_recent_interactions(db, t, limit, messages_only)

\* C5: for any interleaved sequence of add_interaction calls across two
\* threads, get_recent_interactions for a thread returns only interactions
\* appended to that thread, in the order they were appended, each with its
\* messages in the order given, and appends to the other thread never
\* change this result.
C5_ThreadIsolation ==
    [] C5_OnlyThisThreadInOrder /\ [][C5_OtherThreadAppend]_vars

\* the calls were on one thread, then the other, then the first again, the
\* first with two messages, and get_recent_interactions returned the two
\* interactions of the first thread
C5_Witness ==
    /\ ReadRecent
    /\ ~ last_read.messages_only
    /\ Len(last_read.result) = 2
    /\ Len(last_read.result[1].messages) = 2
    /\ \E iid \in DOMAIN calls :
          /\ calls[iid].thread_id # last_read.thread_id
          /\ calls[iid].committed
          /\ last_read.result[1].interaction_id < iid
          /\ iid < last_read.result[2].interaction_id

\* C12: after add_interaction(t, M), M one message or a list of messages,
\* and before any later append to thread t,
\* get_recent_interactions(t, limit=1, messages_only=True) returns exactly the
\* messages of M, with equal payloads and in the given order; a single
\* message given alone comes back as exactly one message.
C12_RecentIsWhatWasGiven ==
    (/\ ReadRecent
     /\ last_read.limit = 1
     /\ last_read.messages_only
     /\ ThreadCalls(last_read.thread_id) # <<>>) =>
        LET on_thread == ThreadCalls(last_read.thread_id)
            M == calls[on_thread[Len(on_thread)]].given
        IN  PayloadsOf(last_read.result) =
               IF M.single THEN <<M.one>> ELSE M.many

\* the latest add_interaction on the thread was given one message alone,
\* after an earlier one on the same thread that was given a list of two,
\* and the read came with limit=1 and messages_only=True
C12_Witness ==
    /\ ReadRecent
    /\ last_read.limit = 1
    /\ last_read.messages_only
    /\ Len(ThreadCalls(last_read.thread_id)) = 2
    /\ calls[ThreadCalls(last_read.thread_id)[2]].given.single
    /\ Len(calls[ThreadCalls(last_read.thread_id)[1]].messages) = 2
    /\ Len(last_read.result) = 1

\* C6: for every thread with n interactions and every limit >= 0,
\* get_recent_interactions(thread, limit) returns exactly the last
\* min(limit, n) interactions, oldest first.
C6_LastMinLimit ==
    ReadRecent =>
       LET all == get_all_interactions(db, last_read.thread_id)
           expected == LastK(all, Min(last_read.limit, Len(all)))
       IN  last_read.result =
              IF last_read.messages_only
              THEN Flatten([i \in DOMAIN expected |-> expected[i].messages])
              ELSE expected

\* the same for every limit >= 1
C6_PositiveLimit ==
    (ReadRecent /\ last_read.limit >= 1) => C6_LastMinLimit

(***************************************************************************)
(* message_history.py: search.  Texts are sequences of character codes     *)
(* (ASCII).  The scores of rank_bm25's BM25Okapi (k1 = 1.5, b = 0.75,       *)
(* epsilon = 0.25) are held in millionths: the natural logarithms of the   *)
(* idf come from a table, rounded to the millionth, and the products are   *)
(* rounded down.                                                           *)
(***************************************************************************)
MaxDocs == 4           \* most rows of a table handed to search

\* the value None of an optional argument
None == "None"

\* string literals of the code and of the scenarios
str_hello == <<104, 101, 108, 108, 111>>
str_Hello == <<72, 101, 108, 108, 111>>
str_hi_there == <<104, 105, 32, 116, 104, 101, 114, 101>>
str_hello_there == <<104, 101, 108, 108, 111, 32, 116, 104, 101, 114, 101>>
str_bang == <<33>>
str_space == <<32>>
str_header_open == <<45, 45, 45, 32, 67, 111, 110, 118, 101, 114, 115, 97, 116, 105, 111, 110, 32, 102, 114, 111, 109, 32>>
str_header_close == <<32, 45, 45, 45>>
str_User == <<85, 115, 101, 114>>
str_Assistant == <<65, 115, 115, 105, 115, 116, 97, 110, 116>>
str_Unknown == <<85, 110, 107, 110, 111, 119, 110>>
str_colon_space == <<58, 32>>
str_newline == <<10>>
str_date == <<50, 48, 50, 54, 45, 48, 49, 45, 48, 49, 32, 48, 48, 58>>

\* str.join
RECURSIVE Join(_, _)
Join(strings, sep) ==
    IF strings = <<>> THEN <<>>
    ELSE IF Len(strings) = 1 THEN strings[1]
    ELSE strings[1] \o sep \o Join(Tail(strings), sep)

\* str.lower on ASCII
lower(text) ==
    [i \in DOMAIN text |-> IF text[i] >= 65 /\ text[i] <= 90
                           THEN text[i] + 32 ELSE text[i]]

\* \w of the regular expression: a letter, a digit or the underscore
IsWordChar(c) ==
    \/ c >= 97 /\ c <= 122
    \/ c >= 65 /\ c <= 90
    \/ c >= 48 /\ c <= 57
    \/ c = 95

\* str.isspace on ASCII
IsSpace(c) == c = 32 \/ (c >= 9 /\ c <= 13)

\* str.strip
RECURSIVE strip(_)
strip(text) ==
    IF text = <<>> THEN text
    ELSE IF IsSpace(Head(text)) THEN strip(Tail(text))
    ELSE IF IsSpace(text[Len(text)]) THEN strip(SubSeq(text, 1, Len(text) - 1))
    ELSE text

\* re.findall(r'\b\w+\b', text): the maximal runs of word characters
RECURSIVE findall_words(_, _)
findall_words(text, run) ==
    IF text = <<>> THEN (IF run = <<>> THEN <<>> ELSE <<run>>)
    ELSE IF IsWordChar(Head(text))
         THEN findall_words(Tail(text), Append(run, Head(text)))
         ELSE (IF run = <<>> THEN <<>> ELSE <<run>>)
                 \o findall_words(Tail(text), <<>>)

_tokenize(text) == findall_words(lower(text), <<>>)

\* a payload that is a str and not a dict
IsStrPayload(message) == "isstr" \in DOMAIN message

\* as _extract_searchable_content, taking the content of every part
_extract_searchable_content_any_part(message) ==
    LET Searchable(part) ==
            /\ part.content.isstr
            /\ part.content.text # <<>>
        searchable_parts == SelectSeq(message.parts, Searchable)
    IN  Join([i \in DOMAIN searchable_parts |-> searchable_parts[i].content.text],
             str_space)

\* _extract_searchable_content of a dict: the contents of the user-prompt
\* and text parts that are not empty, joined by a space (a content that is
\* absent or None is skipped)
_extract_searchable_content(message) ==
    LET Searchable(part) ==
            /\ part.part_kind \in {"user-prompt", "text"}
            /\ part.content.isstr
            /\ part.content.text # <<>>
        searchable_parts == SelectSeq(message.parts, Searchable)
    IN  Join([i \in DOMAIN searchable_parts |-> searchable_parts[i].content.text],
             str_space)

\* _get_all_messages_raw(thread_id): the rows, of one thread or of all
_get_all_messages_raw(table, thread_id) ==
    LET Wanted(row) == thread_id = None \/ row.thread_id = thread_id
    IN  order_by_created_at(SelectSeq(table, Wanted))

\* search, lines 570-577: the positions in all_messages of the messages that
\* are indexed, in scan order
IndexedPositions(all_messages) ==
    LET Indexed(i) ==
            strip(_extract_searchable_content(json_loads(all_messages[i].message)))
               # <<>>
    IN  SelectSeq([i \in DOMAIN all_messages |-> i], Indexed)

Corpus(all_messages) ==
    LET positions == IndexedPositions(all_messages)
    IN  [d \in DOMAIN positions |->
           _tokenize(_extract_searchable_content(
                        json_loads(all_messages[positions[d]].message)))]

\* ---- rank_bm25.BM25Okapi ------------------------------------------------
\* ln(k), in millionths, for the odd k the idf of a small corpus needs
LnMicro(k) ==
    CASE k = 1 -> 0
      [] k = 3 -> 1098612
      [] k = 5 -> 1609438
      [] k = 7 -> 1945910
      [] k = 9 -> 2197225
      [] k = 11 -> 2397895
      [] k = 13 -> 2564949
      [] k = 15 -> 2708050

Words(corpus) == UNION {{corpus[d][j] : j \in DOMAIN corpus[d]} : d \in DOMAIN corpus}

\* nd[word]: the number of documents that hold the word
DocCount(corpus, word) ==
    Cardinality({d \in DOMAIN corpus : \E j \in DOMAIN corpus[d] : corpus[d][j] = word})

\* doc_freqs[d][word]
Frequency(doc, word) == Cardinality({j \in DOMAIN doc : doc[j] = word})

\* math.log(corpus_size - freq + 0.5) - math.log(freq + 0.5)
RawIdf(corpus, word) ==
    LnMicro(2 * Len(corpus) - 2 * DocCount(corpus, word) + 1)
       - LnMicro(2 * DocCount(corpus, word) + 1)

RECURSIVE SumRawIdf(_, _)
SumRawIdf(corpus, words) ==
    IF words = {} THEN 0
    ELSE LET w == CHOOSE x \in words : TRUE
         IN  RawIdf(corpus, w) + SumRawIdf(corpus, words \ {w})

\* _calc_idf divides by len(self.idf): a corpus without a word raises
\* ZeroDivisionError
BM25Okapi_raises(corpus) == Words(corpus) = {}

\* epsilon * average_idf
Eps(corpus) == SumRawIdf(corpus, Words(corpus)) \div (4 * Cardinality(Words(corpus)))

\* self.idf[word]: a negative idf is replaced by eps
Idf(corpus, word) ==
    IF RawIdf(corpus, word) < 0 THEN Eps(corpus) ELSE RawIdf(corpus, word)

\* get_scores, one query token against one document:
\*   idf * f * (k1 + 1) / (f + k1 * (1 - b + b * doc_len / avgdl))
\* with numerator and denominator multiplied by 8 * (the corpus' tokens)
ScoreTerm(corpus, q, d) ==
    LET f     == Frequency(corpus[d], q)
        total == SumSeq([x \in DOMAIN corpus |-> Len(corpus[x])])
        idf   == IF q \in Words(corpus) THEN Idf(corpus, q) ELSE 0
    IN  (idf * 20 * f * total)
           \div (8 * f * total + 3 * total + 9 * Len(corpus[d]) * Len(corpus))

get_scores(corpus, query_tokens) ==
    [d \in DOMAIN corpus |->
        SumSeq([j \in DOMAIN query_tokens |-> ScoreTerm(corpus, query_tokens[j], d)])]

\* ---- search, lines 587-620 ------------------------------------------------
\* as sort_by_score, sorting upwards and reversing the list
RECURSIVE InsertScoredUp(_, _)
InsertScoredUp(sorted, x) ==
    IF sorted = <<>> THEN <<x>>
    ELSE IF sorted[Len(sorted)].score <= x.score THEN Append(sorted, x)
    ELSE Append(InsertScoredUp(SubSeq(sorted, 1, Len(sorted) - 1), x),
                sorted[Len(sorted)])

RECURSIVE SortScoredUp(_)
SortScoredUp(xs) ==
    IF xs = <<>> THEN <<>>
    ELSE InsertScoredUp(SortScoredUp(SubSeq(xs, 1, Len(xs) - 1)), xs[Len(xs)])

sort_by_score_reversed(scored_indices) == reversed(SortScoredUp(scored_indices))

\* scored_indices.sort(key=lambda x: x[1], reverse=True): stable, the
\* highest score first
RECURSIVE InsertScored(_, _)
InsertScored(sorted, x) ==
    IF sorted = <<>> THEN <<x>>
    ELSE IF sorted[Len(sorted)].score >= x.score THEN Append(sorted, x)
    ELSE Append(InsertScored(SubSeq(sorted, 1, Len(sorted) - 1), x),
                sorted[Len(sorted)])

RECURSIVE sort_by_score(_)
sort_by_score(scored_indices) ==
    IF scored_indices = <<>> THEN <<>>
    ELSE InsertScored(sort_by_score(SubSeq(scored_indices, 1, Len(scored_indices) - 1)),
                      scored_indices[Len(scored_indices)])

\* the candidates: [i, score] of the documents with score > min_score, sorted
\* as Candidates, keeping the scores that reach min_score
Candidates_at_least(corpus, query_tokens, min_score) ==
    LET scores == get_scores(corpus, query_tokens)
        Reaches(i) == scores[i] >= min_score
        kept == SelectSeq([i \in DOMAIN corpus |-> i], Reaches)
    IN  sort_by_score([c \in DOMAIN kept |-> [i |-> kept[c], score |-> scores[kept[c]]]])

Candidates(corpus, query_tokens, min_score) ==
    LET scores == get_scores(corpus, query_tokens)
        Above(i) == scores[i] > min_score
        kept == SelectSeq([i \in DOMAIN corpus |-> i], Above)
    IN  sort_by_score([c \in DOMAIN kept |-> [i |-> kept[c], score |-> scores[kept[c]]]])

Kind(row) == json_loads(row.message).kind

\* as _get_message_pair, taking the neighbour whatever its kind
_get_message_pair_any_neighbour(message_id, all_messages) ==
    LET idx == CHOOSE i \in DOMAIN all_messages : all_messages[i].id = message_id
    IN  IF Kind(all_messages[idx]) = "request"
        THEN <<all_messages[idx]>>
                \o (IF idx + 1 <= Len(all_messages)
                    THEN <<all_messages[idx + 1]>> ELSE <<>>)
        ELSE IF Kind(all_messages[idx]) = "response"
        THEN (IF idx > 1 THEN <<all_messages[idx - 1]>> ELSE <<>>)
                \o <<all_messages[idx]>>
        ELSE <<all_messages[idx]>>

\* _get_message_pair(message_id, all_messages)
_get_message_pair(message_id, all_messages) ==
    IF ~ \E i \in DOMAIN all_messages : all_messages[i].id = message_id
    THEN <<>>
    ELSE
    LET idx == CHOOSE i \in DOMAIN all_messages :
                  /\ all_messages[i].id = message_id
                  /\ \A j \in 1..(i - 1) : all_messages[j].id # message_id
    IN  IF Kind(all_messages[idx]) = "request"
        THEN <<all_messages[idx]>>
                \o (IF idx + 1 <= Len(all_messages)
                       /\ Kind(all_messages[idx + 1]) = "response"
                    THEN <<all_messages[idx + 1]>> ELSE <<>>)
        ELSE IF Kind(all_messages[idx]) = "response"
        THEN (IF idx > 1 /\ Kind(all_messages[idx - 1]) = "request"
              THEN <<all_messages[idx - 1]>> ELSE <<>>)
                \o <<all_messages[idx]>>
        ELSE <<all_messages[idx]>>

\* pair_id = tuple(m[0] for m in pair)
PairId(pair) == [j \in DOMAIN pair |-> pair[j].id]

\* as pair_seen, for a loop that forgets what it has returned
pair_seen_never(pair_id, seen_pair_ids) == FALSE

\* pair_id in seen_pair_ids
pair_seen(pair_id, seen_pair_ids) == pair_id \in seen_pair_ids

\* lines 595-611: the loop over the candidates; result_pairs keeps, with
\* each pair, the candidate it was resolved from
RECURSIVE CollectPairs(_, _, _, _, _)
CollectPairs(candidates, result_pairs, limit, positions, all_messages) ==
    IF candidates = <<>> THEN result_pairs
    ELSE IF Len(result_pairs) >= limit THEN result_pairs
    ELSE LET msg_id == all_messages[positions[Head(candidates).i]].id
             pair   == _get_message_pair(msg_id, all_messages)
             seen_pair_ids == {PairId(result_pairs[r].pair) : r \in DOMAIN result_pairs}
         IN  IF pair = <<>> \/ pair_seen(PairId(pair), seen_pair_ids)
             THEN CollectPairs(Tail(candidates), result_pairs, limit,
                               positions, all_messages)
             ELSE CollectPairs(Tail(candidates),
                               Append(result_pairs,
                                      [pair |-> pair,
                                       hit |-> positions[Head(candidates).i],
                                       score |-> Head(candidates).score]),
                               limit, positions, all_messages)

\* created_at.strftime("%Y-%m-%d %H:%M") (the runs of the model stay within
\* one hour of one day)
strftime(t) ==
    LET minute == (t \div TicksPerSecond) \div 60
    IN  str_date \o <<48 + (minute \div 10), 48 + (minute % 10)>>

\* _format_message_pair(pair)
_format_message_pair(pair) ==
    IF pair = <<>> THEN <<>>
    ELSE
    LET header == str_header_open \o strftime(pair[1].created_at) \o str_header_close
        Role(row) == IF Kind(row) = "request" THEN str_User
                     ELSE IF Kind(row) = "response" THEN str_Assistant
                     ELSE str_Unknown
        Content(row) == _extract_searchable_content(json_loads(row.message))
        HasContent(row) == Content(row) # <<>>
        shown == SelectSeq(pair, HasContent)
    IN  Join(<<header>> \o [j \in DOMAIN shown |->
                              Role(shown[j]) \o str_colon_space \o Content(shown[j])],
             str_newline)

NoResult == [raised |-> "", text |-> <<>>, result_pairs |-> <<>>,
             scored_indices |-> <<>>, scores |-> <<>>]

\* search(query, thread_id, limit, min_score): the error raised (or ""), the
\* text returned, and the locals result_pairs, scored_indices and scores (as
\* positions in all_messages)
search(table, query, thread_id, limit, min_score) ==
    LET all_messages == _get_all_messages_raw(table, thread_id)
    IN  IF all_messages = <<>> THEN NoResult
        ELSE IF \E i \in DOMAIN all_messages :
                   IsStrPayload(json_loads(all_messages[i].message))
        THEN [NoResult EXCEPT !.raised = "AttributeError"]
        ELSE
        LET positions == IndexedPositions(all_messages)
            corpus == Corpus(all_messages)
        IN  IF corpus = <<>> THEN NoResult
            ELSE IF BM25Okapi_raises(corpus)
            THEN [NoResult EXCEPT !.raised = "ZeroDivisionError"]
            ELSE
            LET candidates == Candidates(corpus, _tokenize(query), min_score)
                result_pairs == CollectPairs(candidates, <<>>, limit,
                                             positions, all_messages)
                formatted_results ==
                    [r \in DOMAIN result_pairs |->
                        _format_message_pair(result_pairs[r].pair)]
                NotEmpty(formatted) == formatted # <<>>
            IN  [raised |-> "",
                 text |-> Join(SelectSeq(formatted_results, NotEmpty),
                               str_newline \o str_newline),
                 result_pairs |-> result_pairs,
                 scored_indices |-> [c \in DOMAIN candidates |->
                                       [pos |-> positions[candidates[c].i],
                                        score |-> candidates[c].score]],
                 scores |-> LET scores == get_scores(corpus, _tokenize(query))
                            IN  [d \in DOMAIN positions |->
                                   [pos |-> positions[d], score |-> scores[d]]]]

(***************************************************************************)
(* search on a stored history: the table is any history that the appends   *)
(* of a single caller leave behind, with the messages of a small pool.     *)
(***************************************************************************)
DefaultLimit == 5            \* search(limit=5)
DefaultMinScore == 500000    \* search(min_score=0.5), in millionths

Request(pk, text) ==
    [kind |-> "request", content |-> NoStr, parts |-> <<Part(pk, Str(text))>>]
Response(pk, text) ==
    [kind |-> "response", content |-> NoStr, parts |-> <<Part(pk, Str(text))>>]

\* the payloads of the pool: a user prompt, two answers, a tool return (no
\* searchable content), an answer without a word, a message of another
\* kind, and a payload that is a str
SearchPool ==
    {Request("user-prompt", str_hello),
     Response("text", str_hi_there),
     Response("text", str_Hello),
     Request("tool-return", str_hello),
     Response("text", str_bang),
     [kind |-> "other", content |-> NoStr, parts |-> <<Part("text", Str(str_hello_there))>>],
     Str(str_hello)}

\* the rows of a history of n messages: ids and times in the order of the
\* appends, the third message on thread "t2" and the others on thread "t1"
SearchTables ==
    UNION {{[i \in 1..n |->
               [id |-> i,
                thread_id |-> IF i = 3 THEN "t2" ELSE "t1",
                interaction_id |-> i,
                message |-> json_dumps(payloads[i]),
                created_at |-> i - 1]] :
              payloads \in [1..n -> SearchPool]} :
           n \in 0..MaxDocs}

\* payloads of several parts: a request that returns a tool result and
\* holds a user prompt, a response that calls a tool and holds a text, and
\* a request that only returns a tool result
MixedPool ==
    {[kind |-> "request", content |-> NoStr,
      parts |-> <<Part("tool-return", Str(str_hello_there)),
                  Part("user-prompt", Str(str_hello))>>],
     [kind |-> "response", content |-> NoStr,
      parts |-> <<Part("tool-call", Str(str_hello)),
                  Part("text", Str(str_hi_there))>>],
     Request("tool-return", str_hello_there),
     Response("text", str_Hello)}

\* histories of three messages of that pool, on thread "t1"
MixedTables ==
    {[i \in 1..3 |->
        [id |-> i, thread_id |-> "t1", interaction_id |-> i,
         message |-> json_dumps(payloads[i]), created_at |-> i - 1]] :
       payloads \in [1..3 -> MixedPool]}

SearchQueries == {str_hello, str_hello_there}

SearchInit ==
    /\ AgentIdle
    /\ CompactIdle
    /\ TruncIdle
    /\ db \in SearchTables \cup MixedTables
    /\ clock = Len(db)
    /\ next_uuid = Len(db) + 1
    /\ writer = <<>>
    /\ calls = <<>>
    /\ last_read = [called |-> FALSE]

\* a reader calls search
Search(query, thread_id, limit, min_score) ==
    /\ ReaderIdle
    /\ last_read' = [called |-> TRUE, op |-> "search", query |-> query,
                     thread_id |-> thread_id, limit |-> limit,
                     min_score |-> min_score,
                     result |-> search(db, query, thread_id, limit, min_score)]
    /\ UNCHANGED <<db, clock, next_uuid, writer, calls, cvars, tvars, avars>>

SearchNext ==
    \/ \E query \in SearchQueries, thread_id \in {None, "t1"},
          limit \in {0, 1, DefaultLimit}, min_score \in {0, DefaultMinScore} :
          Search(query, thread_id, limit, min_score)
    \/ ReadReturn

SearchSpec == SearchInit /\ [][SearchNext]_vars

(***************************************************************************)
(* Claims about search.                                                    *)
(***************************************************************************)
SearchRead == last_read.called /\ last_read.op = "search"

\* what the call of search in last_read had before it
ReadMessages == _get_all_messages_raw(db, last_read.thread_id)
ReadHasStr ==
    \E i \in DOMAIN ReadMessages : IsStrPayload(json_loads(ReadMessages[i].message))
ReadCorpus == Corpus(ReadMessages)
ReadCandidates ==
    Candidates(ReadCorpus, _tokenize(last_read.query), last_read.min_score)

\* the positions in all_messages of the messages that score above min_score
ReadHits ==
    {last_read.result.scored_indices[c].pos :
        c \in DOMAIN last_read.result.scored_indices}

\* the ids of the messages of the pair a hit resolves to
PairOfHit(pos) == PairId(_get_message_pair(ReadMessages[pos].id, ReadMessages))

SearchReturned ==
    /\ SearchRead
    /\ last_read.result.raised = ""

\* C13: in the output of one search call no message pair appears twice: when
\* both the request and the response of an exchange score above min_score
\* the exchange is one block and counts once toward limit (the number of
\* blocks is the number of distinct pairs of the hits, or limit if smaller).
C13_NoPairTwice ==
    SearchReturned =>
       LET rp == last_read.result.result_pairs
       IN  /\ \A p, q \in DOMAIN rp :
                p # q => \A a \in DOMAIN rp[p].pair, b \in DOMAIN rp[q].pair :
                            rp[p].pair[a].id # rp[q].pair[b].id
           /\ Len(rp) = Min(last_read.limit,
                            Cardinality({PairOfHit(pos) : pos \in ReadHits}))

\* the request and the response of one exchange both score above min_score,
\* another hit follows, and limit is larger than the number of blocks
C13_Witness ==
    /\ SearchReturned
    /\ Len(last_read.result.result_pairs) = 2
    /\ last_read.limit > 2
    /\ \E r \in DOMAIN last_read.result.result_pairs :
          LET pair == last_read.result.result_pairs[r].pair
          IN  /\ Len(pair) = 2
              /\ \E a, b \in ReadHits :
                    /\ ReadMessages[a].id = pair[1].id
                    /\ ReadMessages[b].id = pair[2].id

\* the position in all_messages of a row
PositionOf(row) == CHOOSE i \in DOMAIN ReadMessages : ReadMessages[i].id = row.id

\* C14: a hit of kind request is returned with the immediately following
\* message if that one exists and is of kind response; a hit of kind
\* response with the immediately preceding message if that one exists and
\* is of kind request; in every other case the hit is returned alone.  A
\* block has one or two messages, and a block of two is a request followed
\* by a response, adjacent in the chronological sequence.
C14_PairResolution ==
    SearchReturned =>
       \A r \in DOMAIN last_read.result.result_pairs :
          LET pair == last_read.result.result_pairs[r].pair
              hit  == last_read.result.result_pairs[r].hit
              n    == Len(ReadMessages)
              HasNextResponse ==
                  hit + 1 <= n /\ Kind(ReadMessages[hit + 1]) = "response"
              HasPrevRequest ==
                  hit - 1 >= 1 /\ Kind(ReadMessages[hit - 1]) = "request"
          IN  /\ Len(pair) \in {1, 2}
              /\ \E j \in DOMAIN pair : pair[j] = ReadMessages[hit]
              /\ Len(pair) = 2 =>
                    /\ Kind(pair[1]) = "request"
                    /\ Kind(pair[2]) = "response"
                    /\ PositionOf(pair[2]) = PositionOf(pair[1]) + 1
              /\ Len(pair) = 2 <=>
                    \/ Kind(ReadMessages[hit]) = "request" /\ HasNextResponse
                    \/ Kind(ReadMessages[hit]) = "response" /\ HasPrevRequest

\* one call returned a block of two resolved from its response, and a block
\* of one message whose neighbour is of the wrong kind
C14_Witness ==
    /\ SearchReturned
    /\ \E r, s \in DOMAIN last_read.result.result_pairs :
          LET rp == last_read.result.result_pairs
          IN  /\ Len(rp[r].pair) = 2
              /\ Kind(ReadMessages[rp[r].hit]) = "response"
              /\ Len(rp[s].pair) = 1
              /\ Kind(ReadMessages[rp[s].hit]) = "response"
              /\ rp[s].hit > 1

\* C15: search returns the empty string, without raising, when the store (or
\* the selected thread) has no messages, when no message has searchable
\* content, and when no indexed message scores above min_score.
C15_EmptyWithoutRaising ==
    SearchRead =>
       LET NoMessages == ReadMessages = <<>>
           NoSearchable ==
               \A i \in DOMAIN ReadMessages :
                  \/ IsStrPayload(json_loads(ReadMessages[i].message))
                  \/ strip(_extract_searchable_content(
                              json_loads(ReadMessages[i].message))) = <<>>
           NoneAbove ==
               /\ ~ ReadHasStr
               /\ ReadCorpus # <<>>
               /\ \/ Words(ReadCorpus) = {}
                  \/ ReadCandidates = <<>>
       IN  (NoMessages \/ NoSearchable \/ NoneAbove) =>
              /\ last_read.result.raised = ""
              /\ last_read.result.text = <<>>

Contains(text, sub) ==
    \E i \in 1..(Len(text) - Len(sub) + 1) : SubSeq(text, i, i + Len(sub) - 1) = sub

\* the store of the scenario: one interaction on thread "t1", a request with
\* the user prompt "hello" and a response with the text "hi there"
ScenarioStore ==
    /\ Len(db) = 2
    /\ json_loads(db[1].message) = Request("user-prompt", str_hello)
    /\ json_loads(db[2].message) = Response("text", str_hi_there)

\* C17: with only that interaction in the store, search("hello",
\* thread_id="t1") with the default limit and min_score returns a single
\* block that holds both "User: hello" and "Assistant: hi there".
C17_ScenarioFindsHello ==
    (/\ SearchRead
     /\ ScenarioStore
     /\ last_read.query = str_hello
     /\ last_read.thread_id = "t1"
     /\ last_read.limit = DefaultLimit
     /\ last_read.min_score = DefaultMinScore) =>
        /\ last_read.result.raised = ""
        /\ Len(last_read.result.result_pairs) = 1
        /\ Contains(last_read.result.text,
                    str_User \o str_colon_space \o str_hello)
        /\ Contains(last_read.result.text,
                    str_Assistant \o str_colon_space \o str_hi_there)

(***************************************************************************)
(* The whole of MessageHistory with one caller: add_message, add_messages  *)
(* and add_interaction append, and every other method reads.               *)
(***************************************************************************)
MaxLog == 3            \* most rows of the table in a run of every method

\* the messages given to add_message and add_messages
LogMessages == {Request("user-prompt", str_hello), Response("text", str_hi_there)}

\* the lists given to add_messages: empty, one message, a prompt and its answer
LogLists ==
    {<<>>, <<Response("text", str_Hello)>>,
     <<Request("user-prompt", str_hello), Response("text", str_hi_there)>>}

\* the lists given to add_interaction
LogInteractions ==
    {[single |-> FALSE, one |-> <<>>, many |-> many] : many \in LogLists \ {<<>>}}

\* the times datetime.now() gives to k calls made after one another,
\* starting at time `from`: the clock never goes back
RECURSIVE Nows(_, _)
Nows(from, k) ==
    IF k = 0 THEN {<<>>}
    ELSE UNION {{<<now>> \o rest : rest \in Nows(now, k - 1)} :
                now \in {from, from + 1}}

\* add_message(thread_id, message): one row without interaction_id, added
\* and committed
AddMessage(t, message) ==
    /\ ReaderIdle
    /\ Len(db) + 1 <= MaxLog
    /\ \E now \in {clock, clock + 1} :
          /\ clock' = now
          /\ db' = Inserted(db, <<[thread_id |-> t,
                                   interaction_id |-> NoInteraction,
                                   message |-> json_dumps(message),
                                   created_at |-> now]>>)
    /\ UNCHANGED <<next_uuid, writer, calls, last_read, cvars, tvars, avars>>

\* add_messages(thread_id, messages): a row without interaction_id for each
\* message, each with the time of its own datetime.now(), and one commit
AddMessages(t, messages) ==
    /\ ReaderIdle
    /\ Len(db) + Len(messages) <= MaxLog
    /\ \E nows \in Nows(clock, Len(messages)) :
          /\ clock' = IF nows = <<>> THEN clock ELSE nows[Len(nows)]
          /\ db' = Inserted(db, [i \in DOMAIN messages |->
                                   [thread_id |-> t,
                                    interaction_id |-> NoInteraction,
                                    message |-> json_dumps(messages[i]),
                                    created_at |-> nows[i]]])
    /\ UNCHANGED <<next_uuid, writer, calls, last_read, cvars, tvars, avars>>

\* the orders in which ORDER BY created_at DESC may give the rows: rows of
\* equal created_at come in an order the query does not fix
DescOrders(rows) ==
    LET n == Len(rows)
        orders == {p \in [1..n -> 1..n] :
                     /\ \A i, j \in 1..n : i # j => p[i] # p[j]
                     /\ \A i, j \in 1..n :
                           i < j => rows[p[i]].created_at >= rows[p[j]].created_at}
    IN  {[i \in 1..n |-> rows[p[i]]] : p \in orders}

\* a row as get_messages returns it
MessageDict(row) ==
    [id |-> row.id, thread_id |-> row.thread_id,
     message |-> json_loads(row.message),
     created_at |-> isoformat(row.created_at)]

\* get_messages(thread_id, limit): the lists it may return; limit is <<>>
\* for None and <<n>> for n
get_messages(table, t, limit) ==
    LET InThread(row) == row.thread_id = t
        rows == SelectSeq(table, InThread)
    IN  IF limit # <<>>
        THEN {LET messages == reversed(SubSeq(d, 1, Min(limit[1], Len(d))))
              IN  [i \in DOMAIN messages |-> MessageDict(messages[i])] :
                 d \in DescOrders(rows)}
        ELSE {LET messages == order_by_created_at(rows)
              IN  [i \in DOMAIN messages |-> MessageDict(messages[i])]}

\* get_thread_ids(): the distinct thread ids (in an order the query does not
\* fix)
get_thread_ids(table) == {table[i].thread_id : i \in DOMAIN table}

\* get_most_recent_thread_id(): the thread ids it may return
get_most_recent_thread_id(table) ==
    IF table = <<>> THEN {None}
    ELSE {table[i].thread_id :
            i \in {k \in DOMAIN table :
                     \A j \in DOMAIN table :
                        table[j].created_at <= table[k].created_at}}

GetMessages(t, limit) ==
    /\ ReaderIdle
    /\ \E returned \in get_messages(db, t, limit) :
          last_read' = [called |-> TRUE, op |-> "get_messages", thread_id |-> t,
                        limit |-> limit, result |-> returned]
    /\ UNCHANGED <<db, clock, next_uuid, writer, calls, cvars, tvars, avars>>

GetThreadIds ==
    /\ ReaderIdle
    /\ last_read' = [called |-> TRUE, op |-> "get_thread_ids",
                     result |-> get_thread_ids(db)]
    /\ UNCHANGED <<db, clock, next_uuid, writer, calls, cvars, tvars, avars>>

GetMostRecentThreadId ==
    /\ ReaderIdle
    /\ \E returned \in get_most_recent_thread_id(db) :
          last_read' = [called |-> TRUE, op |-> "get_most_recent_thread_id",
                        result |-> returned]
    /\ UNCHANGED <<db, clock, next_uuid, writer, calls, cvars, tvars, avars>>

\* one caller: every call returns before the next one is made
LogNext ==
    \/ \E t \in FirstThreads, message \in LogMessages :
          writer["w1"].pc = "idle" /\ AddMessage(t, message)
    \/ \E t \in FirstThreads, messages \in LogLists :
          writer["w1"].pc = "idle" /\ AddMessages(t, messages)
    \/ \E t \in FirstThreads, m \in LogInteractions :
          /\ Len(db) + Len(AsList(m)) <= MaxLog
          /\ AddInteractionBegin("w1", t, m)
    \/ AddInteractionAdd("w1")
    \/ AddInteractionCommit("w1")
    \/ \E t \in Threads :
          writer["w1"].pc = "idle" /\ GetAllInteractions(t)
    \/ \E t \in Threads :
          writer["w1"].pc = "idle" /\ GetRecentInteractions(t, 1, TRUE)
    \/ \E t \in Threads, limit \in {<<>>, <<1>>} :
          writer["w1"].pc = "idle" /\ GetMessages(t, limit)
    \/ writer["w1"].pc = "idle" /\ GetThreadIds
    \/ writer["w1"].pc = "idle" /\ GetMostRecentThreadId
    \/ \E thread_id \in {None, "t1"} :
          /\ writer["w1"].pc = "idle"
          /\ Search(str_hello, thread_id, DefaultLimit, 0)
    \/ ReadReturn

LogSpec == Init /\ [][LogNext]_vars

\* the rows of `old` are the first rows of `new`, as they were
IsPrefix(old, new) ==
    /\ Len(old) <= Len(new)
    /\ SubSeq(new, 1, Len(old)) = old

\* the step is a call of a reading method
ReadStep == ~ last_read.called /\ last_read'.called

\* the interactions of every thread, as get_all_interactions gives them
InteractionsOf(table) ==
    UNION {LET all_interactions == get_all_interactions(table, t)
           IN  {all_interactions[i] : i \in DOMAIN all_interactions} :
           t \in Threads}

\* C11: the store is append-only.  Every step of add_message, add_messages,
\* add_interaction and of the reading methods keeps the rows of the table as
\* they were, in their places; a reading method (get_all_interactions,
\* get_recent_interactions, get_messages, get_thread_ids,
\* get_most_recent_thread_id, search) leaves the table as it was; and an
\* interaction that get_all_interactions gives is given with the same
\* messages ever after.
C11_AppendOnly ==
    [][/\ IsPrefix(db, db')
       /\ ReadStep => db' = db
       /\ InteractionsOf(db) \subseteq InteractionsOf(db')]_vars

\* a search is made on a table where a message without interaction was
\* appended after an interaction of two messages
C11_Witness ==
    /\ SearchRead
    /\ Len(db) = 3
    /\ db[1].interaction_id # NoInteraction
    /\ db[2].interaction_id = db[1].interaction_id
    /\ db[3].interaction_id = NoInteraction
    /\ db[3].thread_id = db[1].thread_id

(***************************************************************************)
(* ContextCompactionConfig.from_dict and its caller _get_context.  A value *)
(* of the mapping is a Python value: an int, a bool, a float (held in      *)
(* hundredths), a str, None or a list.                                     *)
(***************************************************************************)
PyInt(n)   == [type |-> "int",      n |-> n, s |-> <<>>]
PyBool(n)  == [type |-> "bool",     n |-> n, s |-> <<>>]
PyFloat(h) == [type |-> "float",    n |-> h, s |-> <<>>]
PyStr(t)   == [type |-> "str",      n |-> 0, s |-> t]
PyNone     == [type |-> "NoneType", n |-> 0, s |-> <<>>]
PyList     == [type |-> "list",     n |-> 0, s |-> <<>>]

lit_12 == <<49, 50>>
lit_0_5 == <<48, 46, 53>>
lit_sp5sp == <<32, 53, 32>>
lit_abc == <<97, 98, 99>>
lit_sp == <<32>>
lit_2_0 == <<50, 46, 48>>
lit_2e0 == <<50, 101, 48>>
lit_neg3 == <<45, 51>>
lit_1_0 == <<49, 95, 48>>
lit_0x10 == <<48, 120, 49, 48>>
lit_plus7 == <<43, 55>>
lit_1__0 == <<49, 95, 95, 48>>
lit_None == <<78, 111, 110, 101>>
lit_True == <<84, 114, 117, 101>>
lit_False == <<70, 97, 108, 115, 101>>
lit_brackets == <<91, 93>>

Returns(value) == [raised |-> "", value |-> value]
Raises(error) == [raised |-> error, value |-> 0]

IsDigit(c) == c >= 48 /\ c <= 57

\* digits, with single underscores between them
IsDigits(t) ==
    /\ t # <<>>
    /\ \A i \in DOMAIN t : IsDigit(t[i]) \/ t[i] = 95
    /\ IsDigit(t[1]) /\ IsDigit(t[Len(t)])
    /\ \A i \in 1..(Len(t) - 1) : ~ (t[i] = 95 /\ t[i + 1] = 95)

\* the digits of t, without the underscores
RECURSIVE OnlyDigits(_)
OnlyDigits(t) ==
    IF t = <<>> THEN <<>>
    ELSE (IF IsDigit(Head(t)) THEN <<Head(t)>> ELSE <<>>) \o OnlyDigits(Tail(t))

RECURSIVE DigitsValue(_)
DigitsValue(d) ==
    IF d = <<>> THEN 0
    ELSE 10 * DigitsValue(SubSeq(d, 1, Len(d) - 1)) + (d[Len(d)] - 48)

RECURSIVE Pow10(_)
Pow10(k) == IF k = 0 THEN 1 ELSE 10 * Pow10(k - 1)

\* the place of the first character of t that is in cs, or 0
FirstOf(t, cs) ==
    IF \E i \in DOMAIN t : t[i] \in cs
    THEN CHOOSE i \in DOMAIN t : t[i] \in cs /\ \A j \in 1..(i - 1) : t[j] \notin cs
    ELSE 0

HasSign(t) == t # <<>> /\ t[1] \in {43, 45}
Unsigned(t) == IF HasSign(t) THEN Tail(t) ELSE t
SignOf(t) == IF t # <<>> /\ t[1] = 45 THEN -1 ELSE 1

\* as int_of_str, for a parser that gives 0 for what is not a number
int_of_str_lenient(text) ==
    LET t == strip(text)
    IN  IF IsDigits(Unsigned(t))
        THEN Returns(SignOf(t) * DigitsValue(OnlyDigits(Unsigned(t))))
        ELSE Returns(0)

\* int(text) for a str: blanks around, a sign, decimal digits
int_of_str(text) ==
    LET t == strip(text)
    IN  IF IsDigits(Unsigned(t))
        THEN Returns(SignOf(t) * DigitsValue(OnlyDigits(Unsigned(t))))
        ELSE Raises("ValueError")

\* float(text) for a str that is a decimal literal, in units of 1/per_unit
\* (rounded toward zero): blanks around, a sign, digits with a point, an
\* exponent
float_of_str(text, per_unit) ==
    LET t     == Unsigned(strip(text))
        epos  == FirstOf(t, {69, 101})
        mant  == IF epos = 0 THEN t ELSE SubSeq(t, 1, epos - 1)
        expo  == IF epos = 0 THEN <<>> ELSE SubSeq(t, epos + 1, Len(t))
        dot   == FirstOf(mant, {46})
        whole == IF dot = 0 THEN mant ELSE SubSeq(mant, 1, dot - 1)
        frac  == IF dot = 0 THEN <<>> ELSE SubSeq(mant, dot + 1, Len(mant))
        mant_ok == /\ whole = <<>> \/ IsDigits(whole)
                   /\ frac = <<>> \/ IsDigits(frac)
                   /\ whole # <<>> \/ frac # <<>>
        expo_ok == epos = 0 \/ IsDigits(Unsigned(expo))
        digits == OnlyDigits(whole) \o OnlyDigits(frac)
        e10   == SignOf(expo) * DigitsValue(OnlyDigits(Unsigned(expo)))
                    - Len(OnlyDigits(frac))
        m     == SignOf(strip(text)) * DigitsValue(digits) * per_unit
    IN  IF mant_ok /\ expo_ok
        THEN Returns(IF e10 >= 0 THEN m * Pow10(e10) ELSE PyIntDiv(m, Pow10(0 - e10)))
        ELSE Raises("ValueError")

\* int(value)
int_(value) ==
    CASE value.type \in {"int", "bool"} -> Returns(value.n)
      [] value.type = "float" -> Returns(PyIntDiv(value.n, 100))
      [] value.type = "str" -> int_of_str(value.s)
      [] OTHER -> Raises("TypeError")

\* float(value), in units of 1/per_unit (per_unit is 1 or 100)
float_(value, per_unit) ==
    CASE value.type \in {"int", "bool"} -> Returns(value.n * per_unit)
      [] value.type = "float" -> Returns(PyIntDiv(value.n * per_unit, 100))
      [] value.type = "str" -> float_of_str(value.s, per_unit)
      [] OTHER -> Raises("TypeError")

\* the decimal digits of n >= 0
RECURSIVE DigitsOf(_)
DigitsOf(n) ==
    IF n < 10 THEN <<48 + n>> ELSE Append(DigitsOf(n \div 10), 48 + (n % 10))

\* str(value); a float of the model has at most two decimals
str_(value) ==
    LET Signed(n, t) == IF n < 0 THEN <<45>> \o t ELSE t
        Abs(n) == IF n < 0 THEN 0 - n ELSE n
    IN  CASE value.type = "str" -> value.s
          [] value.type = "int" -> Signed(value.n, DigitsOf(Abs(value.n)))
          [] value.type = "bool" -> IF value.n = 1 THEN lit_True ELSE lit_False
          [] value.type = "float" ->
                Signed(value.n, DigitsOf(Abs(value.n) \div 100) \o <<46>>
                    \o (IF Abs(value.n) % 10 = 0
                        THEN DigitsOf((Abs(value.n) % 100) \div 10)
                        ELSE <<48 + ((Abs(value.n) % 100) \div 10),
                               48 + (Abs(value.n) % 10)>>))
          [] value.type = "NoneType" -> lit_None
          [] OTHER -> lit_brackets

FloatKeys == {"burden_threshold", "base_weight", "weight_growth"}
IntKeys == {"interior_min_length", "final_min_length", "preserve_head_chars",
            "preserve_tail_chars", "max_total_length"}
NumericKeys == FloatKeys \cup IntKeys
Keys == NumericKeys \cup {"truncation_marker"}

\* the unit of a float field of the model: burden_threshold is held in
\* units, the weights in hundredths
PerUnit(key) == IF key = "burden_threshold" THEN 1 ELSE 100

\* conf.get(key, default) handed to the conversion of the field
Converted(mapping, key) ==
    IF key \notin DOMAIN mapping THEN Returns(DefaultConfig[key])
    ELSE IF key \in FloatKeys THEN float_(mapping[key], PerUnit(key))
    ELSE IF key \in IntKeys THEN int_(mapping[key])
    ELSE Returns(str_(mapping[key]))

\* from_dict(conf): the config, or the error of the first conversion that
\* raises (the arguments of cls(...) are evaluated in the order written)
from_dict(mapping) ==
    LET order == <<"burden_threshold", "base_weight", "weight_growth",
                   "interior_min_length", "final_min_length",
                   "preserve_head_chars", "preserve_tail_chars",
                   "truncation_marker", "max_total_length">>
        failing == {i \in DOMAIN order : Converted(mapping, order[i]).raised # ""}
    IN  IF failing = {}
        THEN Returns([key \in Keys |-> Converted(mapping, key).value])
        ELSE Raises(Converted(mapping,
                order[CHOOSE i \in failing : \A j \in failing : i <= j]).raised)

\* a value of each key that its conversion takes, other than the default
Plain(key) ==
    CASE key = "burden_threshold" -> PyStr(lit_12)
      [] key = "base_weight" -> PyInt(2)
      [] key = "weight_growth" -> PyStr(lit_0_5)
      [] key = "interior_min_length" -> PyInt(3)
      [] key = "final_min_length" -> PyStr(lit_sp5sp)
      [] key = "preserve_head_chars" -> PyBool(1)
      [] key = "preserve_tail_chars" -> PyFloat(100)
      [] key = "truncation_marker" -> PyStr(MkMarker(1))
      [] key = "max_total_length" -> PyInt(100)

\* the values int() takes, the values float() takes besides, and values
\* neither takes (a burden_threshold of the model is a whole number)
IntAccepted == {PyStr(lit_neg3), PyStr(lit_1_0), PyStr(lit_plus7), PyInt(4), PyFloat(370)}
FloatOnly == {PyStr(lit_2_0), PyStr(lit_2e0)}
Refused == {PyStr(lit_abc), PyStr(<<>>), PyStr(lit_sp), PyStr(lit_0x10),
            PyStr(lit_1__0), PyNone, PyList}
OddValues(key) ==
    (IntAccepted \cup FloatOnly \cup Refused)
       \ (IF key = "burden_threshold" THEN {PyFloat(370)} ELSE {})

\* a mapping: the keys of `present` with plain values, but for the key `odd`
\* with `value`
Conf(present, odd, value) ==
    [key \in present |-> IF key = odd THEN value ELSE Plain(key)]

\* the interactions get_recent_interactions gave to _get_context
LoadInput == <<<<MsgSpec("U", 1), MsgSpec("R", MaxLen), MsgSpec("T", 2)>>>>

\* no ContextCompactionConfig is built yet
NoConfig == [built |-> FALSE]

LoadInit ==
    /\ AgentIdle
    /\ StoreIdle
    /\ TruncIdle
    /\ \E present \in SUBSET Keys :
          \/ conf = Conf(present, "", PyNone)
          \/ \E odd \in present : \E value \in OddValues(odd) :
                conf = Conf(present, odd, value)
    /\ config = NoConfig
    /\ heap = HeapOf(LoadInput)
    /\ heap0 = HeapOf(LoadInput)
    /\ interactions = RefsOf(LoadInput)
    /\ cpc = "from_dict"
    /\ pass = 1
    /\ reverse_idx = 0
    /\ burden = 0
    /\ total_length = 0
    /\ compacted_recent_to_oldest = <<>>
    /\ applied = <<>>
    /\ result = <<>>
    /\ result1 = <<>>

\* _get_context, lines 273-276: the config is built, and then the call of
\* compact_recent_interactions starts; an error of from_dict leaves
\* _get_context
FromDict ==
    /\ cpc = "from_dict"
    /\ LET built == from_dict(conf)
       IN  IF built.raised # ""
           THEN /\ cpc' = built.raised
                /\ UNCHANGED config
           ELSE /\ cpc' = "start"
                /\ config' = built.value
    /\ UNCHANGED <<conf, heap, heap0, interactions, pass, reverse_idx, burden,
                   total_length, compacted_recent_to_oldest, applied, result,
                   result1, svars, tvars, avars>>

LoadNext == FromDict \/ CompactBegin \/ CompactIterate

LoadSpec == LoadInit /\ [][LoadNext]_vars

\* compact_recent_interactions was called
Started == cpc \in {"start", "loop", "done"}

\* the conversion of the field takes the value
WellFormed(key, value) ==
    \/ value = Plain(key)
    \/ value \in IntAccepted
    \/ key \in FloatKeys /\ value \in FloatOnly

\* C18: from_dict takes any subset of the nine keys and uses the default of
\* every key that is left out; compact_recent_interactions is started only
\* with a mapping whose numeric keys all hold values that int() or float()
\* takes, and a mapping of such values is never refused.
C18_FailFast ==
    /\ Started =>
          /\ \A key \in Keys \ DOMAIN conf : config[key] = DefaultConfig[key]
          /\ \A key \in NumericKeys \cap DOMAIN conf : WellFormed(key, conf[key])
    /\ (\A key \in NumericKeys \cap DOMAIN conf : WellFormed(key, conf[key]))
          => cpc \notin {"ValueError", "TypeError"}

\* the compaction ran to its end on a config built from a mapping that
\* leaves keys out and holds a number given as a str
C18_Witness ==
    /\ cpc = "done"
    /\ DOMAIN conf = {"burden_threshold", "preserve_head_chars"}
    /\ conf["preserve_head_chars"] = PyStr(lit_1_0)
    /\ config.preserve_head_chars = 10
    /\ config.burden_threshold = 12
    /\ config.max_total_length = DefaultConfig.max_total_length

(***************************************************************************)
(* ShellBot3._create_tools.  The conf is read for its 'tools' entry; the   *)
(* tools directory of the data directory may hold custom tools; the        *)
(* construction of a tool may raise (a missing key of an API, say).        *)
(***************************************************************************)
MaxTools == 3          \* most entries of the 'tools' list of the conf

\* the built-in tools, in the order of the dict available_tools
BuiltinTools ==
    <<"shell", "reader", "fastmail", "calendar", "image-generator", "memory",
      "document-store", "clipboard", "python", "tavilysearch", "subtasks",
      "conversation-search", "file_search", "text_replace">>

\* an entry of the 'tools' list: a name, a dict (its keys in order), or a
\* value of another type
NameEntry(name) == [type |-> "str", keys |-> <<name>>]
DictEntry(keys) == [type |-> "dict", keys |-> keys]
OtherEntry == [type |-> "int", keys |-> <<>>]

\* the entries of the lists explored: two tools, a tool whose construction
\* may raise, a name that no tool has, a custom tool, a tool with its
\* arguments, an empty dict and a number
ToolEntries ==
    {NameEntry("shell"), NameEntry("python"), NameEntry("fastmail"),
     NameEntry("nonexistent_tool"), NameEntry("my-tool"),
     DictEntry(<<"document-store">>), DictEntry(<<>>), OtherEntry}

RECURSIVE ToolLists(_)
ToolLists(n) ==
    IF n = 0 THEN {<<>>}
    ELSE ToolLists(n - 1)
           \cup {Append(l, e) : l \in {x \in ToolLists(n - 1) : Len(x) = n - 1},
                                e \in ToolEntries}

\* self.conf.get("tools"): None when the key is absent or holds null
NoToolsKey == [has_key |-> FALSE, is_list |-> FALSE, entries |-> <<>>]
NullTools == [has_key |-> TRUE, is_list |-> FALSE, entries |-> <<>>]
ToolsList(entries) == [has_key |-> TRUE, is_list |-> TRUE, entries |-> entries]

\* available_tools, as the keys of the dict in order: the built-in tools
\* and the custom tools found
available_tools(custom) ==
    BuiltinTools \o (IF "my-tool" \in custom THEN <<"my-tool">> ELSE <<>>)

Returned_tools(names) == [raised |-> "", tools |-> names]

\* step 3 of _create_tools: `if not configured_tools` takes the fallback
\* for None and for an empty list
configured_tools(configured, available) ==
    IF ~ configured.is_list \/ configured.entries = <<>>
    THEN [i \in DOMAIN available |-> NameEntry(available[i])]
    ELSE configured.entries

\* the loop over configured_tools: the tools appended so far, and the
\* entries to come
RECURSIVE instantiate(_, _, _, _)
instantiate(entries, loaded, available, failing) ==
    IF entries = <<>> THEN Returned_tools(loaded)
    ELSE LET tool_entry == Head(entries)
             rest == Tail(entries)
         IN  IF tool_entry.type \notin {"str", "dict"}
             THEN instantiate(rest, loaded, available, failing)
             ELSE IF tool_entry.keys = <<>>
             THEN [raised |-> "IndexError", tools |-> <<>>]
             ELSE LET tool_name == tool_entry.keys[1]
                  IN  IF \A i \in DOMAIN available : available[i] # tool_name
                      THEN instantiate(rest, loaded, available, failing)
                      ELSE IF tool_name \in failing
                      THEN instantiate(rest, loaded, available, failing)
                      ELSE instantiate(rest, Append(loaded, tool_name),
                                       available, failing)

\* _create_tools(): the names of the tools returned, in order
_create_tools(c) ==
    LET available == available_tools(c.custom)
    IN  instantiate(configured_tools(c.configured, available), <<>>,
                    available, c.failing)

ToolsInit ==
    /\ CompactIdle
    /\ StoreIdle
    /\ TruncIdle
    /\ chat = <<>>
    /\ tools = [called |-> FALSE]
    /\ \E configured \in {NoToolsKey, NullTools}
                            \cup {ToolsList(l) : l \in ToolLists(MaxTools)},
          custom \in {{}, {"my-tool"}},
          failing \in {{}, {"fastmail"}} :
          agent_conf = [configured |-> configured, custom |-> custom,
                        failing |-> failing]

CreateTools ==
    /\ ~ tools.called
    /\ tools' = [called |-> TRUE, returned |-> _create_tools(agent_conf)]
    /\ UNCHANGED <<agent_conf, chat, cvars, svars, tvars>>

ToolsNext == CreateTools

ToolsSpec == ToolsInit /\ [][ToolsNext]_vars

\* the names of the entries that name a tool
Named(entries) ==
    LET Names(e) == e.type \in {"str", "dict"} /\ e.keys # <<>>
        named == SelectSeq(entries, Names)
    IN  [i \in DOMAIN named |-> named[i].keys[1]]

\* the tool is known and its construction succeeds
Loadable(name) ==
    /\ \E i \in DOMAIN available_tools(agent_conf.custom) :
          available_tools(agent_conf.custom)[i] = name
    /\ name \notin agent_conf.failing

\* C19: when every entry of the 'tools' list names a tool, _create_tools
\* returns, without raising, the tools named in the list that are known and whose construction succeeds, in the
\* order of the list (none for an empty list); with no 'tools' key in the
\* conf it returns every available tool whose construction succeeds; and
\* nothing but the absence of the key makes it load every tool.
C19_LoadsExactlyNamed ==
    (/\ tools.called
     /\ Len(Named(agent_conf.configured.entries))
           = Len(agent_conf.configured.entries))
    =>  /\ tools.returned.raised = ""
        /\ agent_conf.configured.is_list =>
              tools.returned.tools
                 = SelectSeq(Named(agent_conf.configured.entries), Loadable)
        /\ ~ agent_conf.configured.has_key =>
              tools.returned.tools
                 = SelectSeq(available_tools(agent_conf.custom), Loadable)

(***************************************************************************)
(* run_chat.  The lines are what the user types, one for each prompt; at   *)
(* the end of the lines the user ends the input (Ctrl-D).  gum is on the   *)
(* PATH or it is not.  agent.run returns or raises.                        *)
(***************************************************************************)
MaxLines == 3          \* most lines typed in a session

cmd_quit == <<47, 113, 117, 105, 116>>
cmd_exit == <<47, 101, 120, 105, 116>>
cmd_help == <<47, 104, 101, 108, 112>>
cmd_thread == <<47, 116, 104, 114, 101, 97, 100>>
cmd_threads == <<47, 116, 104, 114, 101, 97, 100, 115>>
cmd_new == <<47, 110, 101, 119>>
line_sp_hello_sp == <<32, 104, 101, 108, 108, 111, 32>>
line_sp_EXIT_now == <<32, 47, 69, 88, 73, 84, 32, 110, 111, 119>>
line_nope == <<47, 110, 111, 112, 101>>

\* the lines a user types: two prompts, an empty line, a blank line, the
\* commands that leave, two commands that stay, a command run_chat does not
\* know
ChatLines ==
    {str_hi_there, line_sp_hello_sp, <<>>, str_space, cmd_quit,
     line_sp_EXIT_now, cmd_help, cmd_new, line_nope}

RECURSIVE LineLists(_)
LineLists(n) ==
    IF n = 0 THEN {<<>>}
    ELSE LineLists(n - 1)
           \cup {Append(l, e) : l \in {x \in LineLists(n - 1) : Len(x) = n - 1},
                                e \in ChatLines}

\* text.split()[0] of a text that is stripped and not empty
first_word(text) ==
    LET blank == {i \in DOMAIN text : IsSpace(text[i])}
    IN  IF blank = {} THEN text
        ELSE SubSeq(text, 1, (CHOOSE i \in blank : \A j \in blank : i <= j) - 1)

\* text.startswith("/")
startswith_slash(text) == text # <<>> /\ text[1] = 47

\* what the reading of a line gives: raw, or the end of the loop; use_gum
\* as the reading leaves it.  _get_input_gum gives None without gum, the
\* line typed, or "" when the user cancels; input() gives the line typed
\* or raises EOFError
read_input(c) ==
    LET ended == c.at > Len(c.lines)
        use_gum == c.use_gum /\ c.gum
    IN  IF use_gum
        THEN LET raw == IF ended THEN <<>> ELSE c.lines[c.at]
             IN  [break |-> raw = <<>>, raw |-> raw, use_gum |-> TRUE]
        ELSE IF ended
             THEN [break |-> TRUE, raw |-> <<>>, use_gum |-> FALSE]
             ELSE [break |-> FALSE, raw |-> c.lines[c.at], use_gum |-> FALSE]

ChatInit ==
    /\ CompactIdle
    /\ StoreIdle
    /\ TruncIdle
    /\ agent_conf = <<>>
    /\ tools = <<>>
    /\ \E lines \in LineLists(MaxLines), gum \in BOOLEAN :
          chat = [lines |-> lines, gum |-> gum, use_gum |-> TRUE, at |-> 1,
                  pc |-> "loop", agent |-> 1, calls |-> <<>>, outcome |-> ""]

\* one turn of the loop, to its `continue`, to its `break`, or to the call
\* of agent.run
ChatTurn ==
    /\ chat.pc = "loop"
    /\ LET read == read_input(chat)
           text == strip(read.raw)
           cmd  == lower(first_word(text))
           next == [chat EXCEPT !.use_gum = read.use_gum, !.at = @ + 1]
       IN  chat' =
             IF read.break THEN [chat EXCEPT !.use_gum = read.use_gum, !.pc = "done"]
             ELSE IF text = <<>> THEN next
             ELSE IF startswith_slash(text)
                  THEN IF cmd \in {cmd_quit, cmd_exit}
                       THEN [chat EXCEPT !.use_gum = read.use_gum, !.pc = "done"]
                       ELSE IF cmd = cmd_new
                       THEN [next EXCEPT !.agent = @ + 1]
                       ELSE next
             ELSE [next EXCEPT !.pc = "run",
                               !.calls = Append(@, [agent |-> chat.agent,
                                                    text |-> text])]
    /\ UNCHANGED <<agent_conf, tools, cvars, svars, tvars>>

\* agent.run returns, or raises KeyboardInterrupt or an Exception, which
\* run_chat catches
AgentRunEnds ==
    /\ chat.pc = "run"
    /\ \E outcome \in {"returned", "KeyboardInterrupt", "Exception"} :
          chat' = [chat EXCEPT !.pc = "loop", !.outcome = outcome]
    /\ UNCHANGED <<agent_conf, tools, cvars, svars, tvars>>

ChatNext == ChatTurn \/ AgentRunEnds

ChatSpec == ChatInit /\ [][ChatNext]_vars

\* the line is the command /quit or /exit
IsQuitLine(line) ==
    /\ startswith_slash(strip(line))
    /\ lower(first_word(strip(line))) \in {cmd_quit, cmd_exit}

\* the place of the first line that leaves, or of the end of the input
ChatEnd ==
    LET quits == {i \in DOMAIN chat.lines : IsQuitLine(chat.lines[i])}
    IN  IF quits = {} THEN Len(chat.lines) + 1
        ELSE CHOOSE i \in quits : \A j \in quits : i <= j

\* the stripped texts of the prompts among the first n lines
PromptsBefore(n) ==
    LET IsPrompt(line) == strip(line) # <<>> /\ ~ startswith_slash(strip(line))
        prompts == SelectSeq(SubSeq(chat.lines, 1, n), IsPrompt)
    IN  [i \in DOMAIN prompts |-> strip(prompts[i])]

CallTexts == [i \in DOMAIN chat.calls |-> chat.calls[i].text]

\* C20: at every moment the calls of agent.run are the stripped texts of
\* the prompts among the lines read, in order (so a blank line or a slash
\* command is never passed, and nothing is passed after the loop has
\* ended); and when the loop has ended, it has ended at the first /quit or
\* /exit, or at the end of the input, with a call for every prompt before.
C20_OneRunPerPrompt ==
    /\ CallTexts = PromptsBefore(Min(chat.at - 1, Len(chat.lines)))
    /\ chat.pc = "done" =>
          /\ chat.at = ChatEnd
          /\ CallTexts = PromptsBefore(ChatEnd - 1)

(***************************************************************************)
(* Further claims about compact_recent_interactions.                       *)
(***************************************************************************)
\* the text length, after compaction, of the r most recent interactions
PostLen(r) ==
    SumSeq([x \in 1..r |-> TextLenOf(heap, compacted_recent_to_oldest[x])])

\* C21: the call returns, oldest first, a compaction of every message of
\* the k most recent interactions, in the stored order, where k is the
\* smallest number >= 1 for which the compacted text of the k most recent
\* interactions is longer than max_total_length, or the number of
\* interactions when there is no such k: the interactions collected before
\* the oldest collected one are together not longer than max_total_length.
C21_SmallestExceeding ==
    (Returned /\ interactions # <<>>) =>
        /\ Included \in 1..Len(interactions)
        /\ Len(result) = Len(Sources)
        /\ \A j \in DOMAIN result :
              IsCompactionOf(heap[result[j]], heap0[Sources[j]])
        /\ \A j, k \in DOMAIN result : j # k => result[j] # result[k]
        /\ \A r \in 1..(Included - 1) : PostLen(r) <= config.max_total_length
        /\ Included < Len(interactions) => PostLen(Included) > config.max_total_length

\* two interactions are returned: the most recent one did not exceed the
\* limit, the two together do
C21_Witness ==
    /\ Returned /\ pass = 1
    /\ Len(interactions) = 2
    /\ Included = 2
    /\ PostLen(1) > 0
    /\ PostLen(1) <= config.max_total_length
    /\ PostLen(2) > config.max_total_length
    /\ Len(result) = Len(interactions[1]) + Len(interactions[2])

\* a dictionary without its content field
WithoutContent(d) == [f \in (DOMAIN d) \ {"content"} |-> d[f]]

\* a content value differs from the stored one only as a string
SameUnlessStr(out, src) ==
    /\ out.isstr = src.isstr
    /\ ~ src.isstr => out = src

\* out is src up to its string-valued content fields
SameFrame(out, src) ==
    /\ WithoutContent([out EXCEPT !.parts = <<>>])
         = WithoutContent([src EXCEPT !.parts = <<>>])
    /\ SameUnlessStr(out.content, src.content)
    /\ Len(out.parts) = Len(src.parts)
    /\ \A i \in DOMAIN src.parts :
          /\ WithoutContent(out.parts[i]) = WithoutContent(src.parts[i])
          /\ SameUnlessStr(out.parts[i].content, src.parts[i].content)

\* C22: a returned message differs from the stored message it was copied
\* from in string-valued content fields only (of parts and at the top
\* level): the kind, the number and order of the parts, every part_kind,
\* the tool name and call id and every content that is not a string are
\* those of the stored message.
C22_OnlyContentStringsDiffer ==
    (Returned /\ Len(result) = Len(Sources)) =>
        \A j \in DOMAIN result : SameFrame(heap[result[j]], heap0[Sources[j]])

\* a returned message with a tool-call part was truncated
C22_Witness ==
    /\ Returned /\ pass = 1
    /\ Len(result) = Len(Sources)
    /\ \E j \in DOMAIN result :
          /\ heap[result[j]] # heap0[Sources[j]]
          /\ \E i \in DOMAIN heap0[Sources[j]].parts :
                heap0[Sources[j]].parts[i].part_kind = "tool-call"

\* the stored last message of the r-th most recent interaction, and its copy
LastStored(r) ==
    LET interaction == reversed(interactions)[r]
    IN  heap0[interaction[Len(interaction)]]

LastCopy(r) ==
    LET messages == compacted_recent_to_oldest[r]
    IN  heap[messages[Len(messages)]]

\* burden_ratio at the r-th most recent interaction is below 1.0
RatioBelowOne(r) == applied[r].num < applied[r].den

\* C23: the last message of an interaction differs from the stored one
\* only when it has no user-prompt part, its text length is at least
\* final_min_length and the burden ratio at that interaction is at least
\* 1.0; with a burden ratio below 1.0 the last message of every
\* interaction, one of one or two messages too, is the stored message,
\* whatever its length.
C23_LastMessageRule ==
    Returned =>
        \A r \in DOMAIN compacted_recent_to_oldest :
            /\ LastCopy(r) # LastStored(r) =>
                  /\ ~ _message_has_user_prompt(LastStored(r))
                  /\ _message_text_length(LastStored(r)) >= config.final_min_length
                  /\ ~ RatioBelowOne(r)
            /\ RatioBelowOne(r) => LastCopy(r) = LastStored(r)

\* below 1.0 a last message that a truncation would change is returned as
\* stored, in an interaction of at most two messages; at another
\* interaction of the same call the last message was truncated
C23_Witness ==
    /\ Returned /\ pass = 1
    /\ \E r \in DOMAIN compacted_recent_to_oldest :
          /\ RatioBelowOne(r)
          /\ Len(compacted_recent_to_oldest[r]) <= 2
          /\ ~ _message_has_user_prompt(LastStored(r))
          /\ _message_text_length(LastStored(r)) >= config.final_min_length
          /\ Trunc(LastStored(r), config) # LastStored(r)
          /\ LastCopy(r) = LastStored(r)
    /\ \E r \in DOMAIN compacted_recent_to_oldest :
          /\ ~ RatioBelowOne(r)
          /\ LastCopy(r) # LastStored(r)

\* L_r: the text length, before any truncation, of the r-th most recent
\* interaction
StoredLen(r) == TextLenOf(heap0, reversed(interactions)[r])

\* the sum over the r most recent interactions of weight * L, in hundredths
WeightedSum(r) ==
    SumSeq([j \in 1..r |->
              (config.base_weight + config.weight_growth * (j - 1)) * StoredLen(j)])

\* the same sum with every negative weight counted as 0
ClampedWeightedSum(r) ==
    SumSeq([j \in 1..r |->
              Max(0, config.base_weight + config.weight_growth * (j - 1)) * StoredLen(j)])

\* burden_ratio at the r-th most recent interaction is n / max(1, burden_threshold),
\* n in hundredths
RatioIs(r, n) ==
    /\ applied[r].num = n
    /\ applied[r].den = 100 * Max(1, config.burden_threshold)

CutoffAt(r) ==
    _dynamic_cutoff(config.interior_min_length, applied[r].num, applied[r].den)

\* burden_ratio at the r-th most recent interaction is at most the one at
\* the q-th
RatioAtMost(r, q) ==
    applied[r].num * applied[q].den <= applied[q].num * applied[r].den

NoContentLonger(out, src) ==
    /\ ContentLen(out.content) <= ContentLen(src.content)
    /\ \A i \in DOMAIN src.parts :
          ContentLen(out.parts[i].content) <= ContentLen(src.parts[i].content)

\* C29: for every config with preserve_head_chars >= 0 and
\* preserve_tail_chars >= 0 (0 included) and any truncation_marker, no
\* content string of a returned message is longer than the stored string
\* it was made from.
C29_NeverLonger ==
    (/\ Returned /\ pass = 1
     /\ config.preserve_head_chars >= 0
     /\ config.preserve_tail_chars >= 0
     /\ Len(result) = Len(Sources)) =>
        \A j \in DOMAIN result :
            NoContentLonger(heap[result[j]], heap0[Sources[j]])

(***************************************************************************)
(* Further claims about search.                                            *)
(***************************************************************************)
\* a sequence without the later occurrences of its elements
RECURSIVE DistinctInOrder(_, _)
DistinctInOrder(s, kept) ==
    IF s = <<>> THEN kept
    ELSE IF \E k \in DOMAIN kept : kept[k] = Head(s)
         THEN DistinctInOrder(Tail(s), kept)
         ELSE DistinctInOrder(Tail(s), Append(kept, Head(s)))

\* the scores of the indexed messages of the call in last_read, by position
\* in all_messages
ReadScores == last_read.result.scores

\* C25: the blocks of search are those of the first `limit` distinct pairs
\* met when walking, by falling score, the indexed messages whose score is
\* strictly greater than min_score, in the order of that walk: a message
\* whose score equals min_score is no candidate, and never more than
\* `limit` blocks are returned.
C25_FirstLimitPairs ==
    SearchReturned =>
       LET rp == last_read.result.result_pairs
           walked == last_read.result.scored_indices
           all_messages == ReadMessages
           scores == ReadScores
           PairAt(pos) == PairId(_get_message_pair(all_messages[pos].id, all_messages))
           pairs == DistinctInOrder([c \in DOMAIN walked |-> PairAt(walked[c].pos)], <<>>)
       IN  /\ scores # <<>> =>
                 {walked[c].pos : c \in DOMAIN walked}
                    = {scores[d].pos : d \in
                          {x \in DOMAIN scores : scores[x].score > last_read.min_score}}
           /\ \A c \in DOMAIN walked :
                 \A e \in (c + 1)..Len(walked) : walked[c].score >= walked[e].score
           /\ Len(rp) <= Max(0, last_read.limit)
           /\ [r \in DOMAIN rp |-> PairId(rp[r].pair)]
                 = SubSeq(pairs, 1, Min(last_read.limit, Len(pairs)))

\* limit cuts the walk short of a distinct pair, and an indexed message
\* whose score equals min_score is not among the hits
C25_Witness ==
    /\ SearchReturned
    /\ last_read.limit = 1
    /\ Len(last_read.result.result_pairs) = 1
    /\ Cardinality({PairOfHit(pos) : pos \in ReadHits}) >= 2
    /\ \E d \in DOMAIN ReadScores :
          /\ ReadScores[d].score = last_read.min_score
          /\ ReadScores[d].pos \notin ReadHits

\* a message without the content of its parts that are neither user-prompt
\* nor text
Scrubbed(message) ==
    IF IsStrPayload(message) THEN message
    ELSE [message EXCEPT
            !.parts = [i \in DOMAIN message.parts |->
                         IF message.parts[i].part_kind \in {"user-prompt", "text"}
                         THEN message.parts[i]
                         ELSE [message.parts[i] EXCEPT !.content = NoStr]]]

ScrubbedTable(table) ==
    [i \in DOMAIN table |->
       [table[i] EXCEPT !.message = json_dumps(Scrubbed(json_loads(@)))]]

\* what a search result lets its caller see, and what it was ranked by
Seen(returned) ==
    [raised |-> returned.raised,
     text |-> returned.text,
     pairs |-> [r \in DOMAIN returned.result_pairs |->
                  PairId(returned.result_pairs[r].pair)],
     scores |-> returned.scores]

\* a message of the call in last_read has searchable content
HasSearchable(pos) ==
    strip(_extract_searchable_content(json_loads(ReadMessages[pos].message))) # <<>>

\* C26: only the content of user-prompt and text parts is indexed and
\* shown: the scores and the output of a search are those of the same
\* search over a history without the content of every other part.  A
\* message without searchable content is never a hit, and it keeps its
\* place in the chronological sequence: the neighbour of a hit is the
\* message next to it in that sequence, searchable or not.
C26_OnlyPromptAndText ==
    SearchReturned =>
       LET rp == last_read.result.result_pairs
           all_messages == ReadMessages
       IN  /\ Seen(last_read.result)
                = Seen(search(ScrubbedTable(db), last_read.query, last_read.thread_id,
                              last_read.limit, last_read.min_score))
           /\ \A pos \in ReadHits : HasSearchable(pos)
           /\ \A r \in DOMAIN rp :
                 \A j \in DOMAIN rp[r].pair :
                    \E pos \in {rp[r].hit - 1, rp[r].hit, rp[r].hit + 1} :
                       /\ pos \in DOMAIN all_messages
                       /\ all_messages[pos].id = rp[r].pair[j].id
           /\ \A r \in DOMAIN rp :
                 (/\ Kind(all_messages[rp[r].hit]) = "response"
                  /\ rp[r].hit > 1
                  /\ Kind(all_messages[rp[r].hit - 1]) = "request") =>
                     rp[r].pair[1].id = all_messages[rp[r].hit - 1].id

\* a request whose tool-return part holds the words of the query, and
\* nothing searchable, is no hit; it stands between a user prompt and a
\* response that is a hit, and the block of that response starts with it
C26_Witness ==
    /\ SearchReturned
    /\ \E r \in DOMAIN last_read.result.result_pairs :
          LET hit == last_read.result.result_pairs[r].hit
              pair == last_read.result.result_pairs[r].pair
          IN  /\ hit >= 3
              /\ Kind(ReadMessages[hit]) = "response"
              /\ Kind(ReadMessages[hit - 1]) = "request"
              /\ ~ HasSearchable(hit - 1)
              /\ json_loads(ReadMessages[hit - 1].message).parts[1].content
                    = Str(last_read.query)
              /\ HasSearchable(hit - 2)
              /\ Kind(ReadMessages[hit - 2]) = "request"
              /\ Len(pair) = 2
              /\ pair[1].id = ReadMessages[hit - 1].id

\* C27: every block returned by search holds messages of one thread only:
\* a search without thread_id over a store whose threads have interleaved
\* creation times never pairs a request with a response of another thread.
C27_OneThreadPerBlock ==
    SearchReturned =>
       \A r \in DOMAIN last_read.result.result_pairs :
          LET pair == last_read.result.result_pairs[r].pair
          IN  \A a, b \in DOMAIN pair : pair[a].thread_id = pair[b].thread_id

(***************************************************************************)
(* Readers and concurrent writers.                                         *)
(***************************************************************************)
\* C28: with two writers calling add_interaction concurrently, the
\* interaction sequence a reader sees only grows at its end.  A reader may
\* call get_all_interactions before and after any step, so every earlier
\* result is a prefix of every later one exactly when every step leaves the
\* result of get_all_interactions, for every thread, a prefix of what it is
\* after the step.
C28_ReadsOnlyGrow ==
    [][\A t \in Threads :
          IsPrefix(get_all_interactions(db, t), get_all_interactions(db', t))]_vars

====
